---- MODULE Spec2Model ----
(***************************************************************************)
(* ENSIP-25 agent-registry verification of agent0-ts:                      *)
(*   - the record codec, key builder and matcher of utils/ens-verifier,    *)
(*   - the test-side encoder of tests/verify-ens.test.ts,                  *)
(*   - Agent.verifyENSName and SDK.getIdentityRegistry as a state machine  *)
(*     whose steps are the awaits of the async code.                       *)
(*                                                                         *)
(* JavaScript strings are sequences of one-character strings, so slicing,  *)
(* lower-casing and hex parsing are computed and not assumed.              *)
(***************************************************************************)
EXTENDS Integers, Sequences, FiniteSets, TLC

\* ------------------------------------------------------------------------
\* Bounds of the model
\* ------------------------------------------------------------------------

\* Agent ids range over the boundary values of every byte width up to this.
MaxIdBytes == 2

\* The clock that stamps updatedAt runs from 0 up to this.
MaxClock == 1

\* ------------------------------------------------------------------------
\* JavaScript string primitives
\* ------------------------------------------------------------------------

UpperLetters == <<"A","B","C","D","E","F","G","H","I","J","K","L","M",
                  "N","O","P","Q","R","S","T","U","V","W","X","Y","Z">>
LowerLetters == <<"a","b","c","d","e","f","g","h","i","j","k","l","m",
                  "n","o","p","q","r","s","t","u","v","w","x","y","z">>
HexDigits == <<"0","1","2","3","4","5","6","7","8","9","a","b","c","d","e","f">>

ToLowerChar(c) ==
  IF \E i \in 1..26 : UpperLetters[i] = c
    THEN LowerLetters[CHOOSE i \in 1..26 : UpperLetters[i] = c]
    ELSE c

ToUpperChar(c) ==
  IF \E i \in 1..26 : LowerLetters[i] = c
    THEN UpperLetters[CHOOSE i \in 1..26 : LowerLetters[i] = c]
    ELSE c

\* String.prototype.toLowerCase / toUpperCase
ToLowerCase(s) == [i \in 1..Len(s) |-> ToLowerChar(s[i])]
ToUpperCase(s) == [i \in 1..Len(s) |-> ToUpperChar(s[i])]

Min(a, b) == IF a < b THEN a ELSE b

\* String.prototype.slice(from, to) with 0-based, end-exclusive indices >= 0
Slice(s, from, to) ==
  LET f == Min(from, Len(s))
      t == Min(to, Len(s))
  IN  IF t <= f THEN <<>> ELSE SubSeq(s, f + 1, t)

\* String.prototype.slice(from)
SliceFrom(s, from) == Slice(s, from, Len(s))

\* String.prototype.startsWith
StartsWith(s, p) == Len(s) >= Len(p) /\ SubSeq(s, 1, Len(p)) = p

IsHexChar(c) == \E i \in 1..16 : HexDigits[i] = ToLowerChar(c)
HexVal(c) == (CHOOSE i \in 1..16 : HexDigits[i] = ToLowerChar(c)) - 1
IsUpperAF(c) == c \in {"A","B","C","D","E","F"}
IsLowerAF(c) == c \in {"a","b","c","d","e","f"}
IsWhiteSpace(c) == c \in {" "}

\* Results of functions that may throw
Return(v) == [ok |-> TRUE, val |-> v, err |-> ""]
Throw(e, dummy) == [ok |-> FALSE, val |-> dummy, err |-> e]

\* ------------------------------------------------------------------------
\* Number <-> hex
\* ------------------------------------------------------------------------

RECURSIVE ToString16(_)
\* Number.prototype.toString(16) / BigInt.prototype.toString(16), n >= 0
ToString16(n) ==
  IF n < 16 THEN <<HexDigits[n + 1]>>
            ELSE Append(ToString16(n \div 16), HexDigits[(n % 16) + 1])

RECURSIVE HexToInt(_)
\* value of a string of hex digits (BigInt("0x" + s))
HexToInt(s) ==
  IF Len(s) = 0 THEN 0
  ELSE 16 * HexToInt(SubSeq(s, 1, Len(s) - 1)) + HexVal(s[Len(s)])

\* String.prototype.padStart(2, "0")
PadStart2(s) == IF Len(s) >= 2 THEN s
                ELSE IF Len(s) = 1 THEN <<"0">> \o s ELSE <<"0","0">>

\* parseInt(s, 16): leading white space, an optional sign, an optional
\* 0x/0X prefix, then the longest run of hex digits; NaN when that is empty.
RECURSIVE SkipWhiteSpace(_)
SkipWhiteSpace(s) ==
  IF Len(s) > 0 /\ IsWhiteSpace(s[1]) THEN SkipWhiteSpace(Tail(s)) ELSE s

RECURSIVE HexPrefixLen(_)
HexPrefixLen(s) ==
  IF Len(s) > 0 /\ IsHexChar(s[1]) THEN 1 + HexPrefixLen(Tail(s)) ELSE 0

ParseInt16(str) ==
  LET s1   == SkipWhiteSpace(str)
      neg  == Len(s1) > 0 /\ s1[1] = "-"
      s2   == IF Len(s1) > 0 /\ s1[1] \in {"+", "-"} THEN Tail(s1) ELSE s1
      s3   == IF Len(s2) >= 2 /\ s2[1] = "0" /\ s2[2] \in {"x", "X"}
                THEN SubSeq(s2, 3, Len(s2)) ELSE s2
      n    == HexPrefixLen(s3)
      mag  == HexToInt(SubSeq(s3, 1, n))
  IN  IF n = 0 THEN [nan |-> TRUE, val |-> 0]
      ELSE [nan |-> FALSE, val |-> IF neg THEN 0 - mag ELSE mag]

\* ------------------------------------------------------------------------
\* ethers primitives used by the verifier
\* ------------------------------------------------------------------------

Prefix0x == <<"0","x">>

IsHexString(s) == \A i \in 1..Len(s) : IsHexChar(s[i])

\* ethers.getBytes on a string: /^0x([0-9a-f][0-9a-f])*$/i, else it throws
GetBytes(hex) ==
  LET body == SliceFrom(hex, 2)
  IN  IF StartsWith(hex, Prefix0x) /\ IsHexString(body) /\ Len(body) % 2 = 0
        THEN Return([i \in 1..(Len(body) \div 2) |->
                       16 * HexVal(body[2 * i - 1]) + HexVal(body[2 * i])])
        ELSE Throw("invalid BytesLike value", <<>>)

RECURSIVE HexOfBytes(_)
HexOfBytes(bytes) ==
  IF Len(bytes) = 0 THEN <<>>
  ELSE <<HexDigits[(bytes[1] \div 16) + 1], HexDigits[(bytes[1] % 16) + 1]>>
         \o HexOfBytes(Tail(bytes))

\* ethers.hexlify: "0x" and two lowercase hex digits per byte
Hexlify(bytes) == Prefix0x \o HexOfBytes(bytes)

\* BigInt of a 0x-prefixed hex string
BigIntOfHex(hex) == HexToInt(SliceFrom(hex, 2))

\* ethers.toBeHex(value) without a width: even-length minimal hex, so that
\* zero renders as 0x00
ToBeHex(n) ==
  LET r == ToString16(n)
  IN  Prefix0x \o (IF Len(r) % 2 = 1 THEN <<"0">> \o r ELSE r)

\* The 20-byte addresses of the model, as 40 lowercase hex digits, with the
\* 40 leading nibbles of keccak256 of that ASCII text.
AddrD8 == <<"d","8","d","a","6","b","f","2","6","9","6","4","a","f","9","d","7","e","e","d","9","e","0","3","e","5","3","4","1","5","d","3","7","a","a","9","6","0","4","5">>
Addr12 == <<"1","2","3","4","5","6","7","8","9","0","a","b","c","d","e","f","1","2","3","4","5","6","7","8","9","0","a","b","c","d","e","f","1","2","3","4","5","6","7","8">>
AddrAB == <<"a","b","c","d","e","f","a","b","c","d","e","f","a","b","c","d","e","f","a","b","c","d","e","f","a","b","c","d","e","f","a","b","c","d","e","f","a","b","c","d">>

\* keccak256 over the lowercase address text (tabulated: the hash itself is
\* not computed here)
Keccak256Nibbles(lower40) ==
  CASE lower40 = AddrD8 ->
         <<5,3,5,11,13,10,14,9,11,11,2,1,4,11,3,12,12,5,8,3,11,5,3,3,8,4,4,6,4,9,9,9,15,2,15,7,15,4,8,6>>
    [] lower40 = Addr12 ->
         <<13,7,0,15,1,7,10,12,6,2,9,7,1,6,9,11,9,0,1,1,5,2,11,4,8,8,4,8,0,3,5,0,14,0,12,5,9,2,0,15>>
    [] lower40 = AddrAB ->
         <<11,14,0,1,10,10,8,10,4,0,15,14,5,7,0,7,12,7,8,7,8,6,2,3,1,6,3,2,2,8,10,11,1,12,14,14,4,4,14,8>>

\* ethers getChecksumAddress: a character is upper-cased when its hash nibble
\* is at least 8
GetChecksumAddress(address) ==
  LET chars  == SliceFrom(ToLowerCase(address), 2)
      hashed == Keccak256Nibbles(chars)
  IN  Prefix0x \o [i \in 1..40 |->
                     IF hashed[i] >= 8 THEN ToUpperChar(chars[i]) ELSE chars[i]]

\* /([A-F].*[a-f])|([a-f].*[A-F])/
IsMixedCase(s) ==
  \E i, j \in 1..Len(s) :
     i < j /\ ((IsUpperAF(s[i]) /\ IsLowerAF(s[j])) \/ (IsLowerAF(s[i]) /\ IsUpperAF(s[j])))

\* /^(0x)?[0-9a-fA-F]{40}$/
IsAddressShaped(s) ==
  \/ Len(s) = 40 /\ IsHexString(s)
  \/ Len(s) = 42 /\ StartsWith(s, Prefix0x) /\ IsHexString(SliceFrom(s, 2))

\* ethers.getAddress: the checksum address, or a throw for a text that is not
\* 40 hex digits or is mixed-case with a wrong checksum
GetAddress(address) ==
  IF IsAddressShaped(address)
    THEN LET a      == IF StartsWith(address, Prefix0x) THEN address
                                                        ELSE Prefix0x \o address
             result == GetChecksumAddress(a)
         IN  IF IsMixedCase(a) /\ result # a
               THEN Throw("bad address checksum", <<>>)
               ELSE Return(result)
    ELSE Throw("invalid address", <<>>)

\* ------------------------------------------------------------------------
\* utils/ens-verifier: key builder, codec, matcher
\* ------------------------------------------------------------------------

EIP155_CODE == 0
ADDRESS_HEX_LENGTH == 42

\* property names every object literal inherits from Object.prototype
ObjectPrototypeKeys == {"constructor", "toString", "hasOwnProperty", "valueOf"}

\* CAIP_NAMESPACE_CODES[namespace]: the code of an own key, an inherited
\* member (not undefined, and no number) for a name of Object.prototype, or
\* undefined
CAIP_NAMESPACE_CODES(namespace) ==
  IF namespace = "eip155"
    THEN [defined |-> TRUE, numeric |-> TRUE, code |-> EIP155_CODE]
  ELSE IF namespace \in ObjectPrototypeKeys
    THEN [defined |-> TRUE, numeric |-> FALSE, code |-> 0]
  ELSE [defined |-> FALSE, numeric |-> FALSE, code |-> 0]

KeyPrefix == <<"a","g","e","n","t","-","r","e","g","i","s","t","r","y",":">>

\* the AgentRegistryRecord interface; NoRecord stands where none is returned
AgentRegistryRecord(version, chainType, chainReference, address, agentId) ==
  [version |-> version, chainType |-> chainType, chainReference |-> chainReference,
   address |-> address, agentId |-> agentId]
NoRecord == AgentRegistryRecord(0, 0, 0, <<>>, 0)

\* two hex digits per byte, big-endian, of a number that fits the width
HexFixed(n, bytes) ==
  LET r == ToString16(n)
  IN  [i \in 1..(2 * bytes - Len(r)) |-> "0"] \o r

\* InteropAddressProvider.buildFromPayload for a chain-only payload:
\* version(2) | chainType(2) | chainReferenceLength(1) | chainReference |
\* addressLength(1) | address, rendered as 0x-prefixed hex; a chain type
\* with no numeric code cannot be rendered and is refused
BuildFromPayload(version, chainType, chainReference, address) ==
  LET ns   == CAIP_NAMESPACE_CODES(chainType)
      ref  == SliceFrom(chainReference, 2)
      addr == SliceFrom(address, 2)
  IN  IF ~ns.numeric THEN Throw("unsupported chain type", <<>>)
      ELSE Return(Prefix0x \o HexFixed(version, 2) \o HexFixed(ns.code, 2)
                    \o HexFixed(Len(ref) \div 2, 1) \o ref
                    \o HexFixed(Len(addr) \div 2, 1) \o addr)

\* the chain identifier of the magnitude of the chain reference, a negative
\* one not refused
EncodeSignIgnored(chainId, namespace) ==
  IF ~CAIP_NAMESPACE_CODES(namespace).defined
    THEN Throw("Unsupported CAIP namespace", <<>>)
  ELSE LET magnitude == IF chainId < 0 THEN 0 - chainId ELSE chainId
           payload   == BuildFromPayload(1, namespace, ToLowerCase(ToBeHex(magnitude)), Prefix0x)
       IN  IF ~payload.ok THEN payload
           ELSE Return(ToLowerCase(SliceFrom(payload.val, 2)))

\* encode7930ChainIdentifierHex(chainId, namespace)
Encode7930ChainIdentifierHex(chainId, namespace) ==
  IF chainId < 0 THEN Throw("Chain reference must be non-negative", <<>>)
  ELSE IF ~CAIP_NAMESPACE_CODES(namespace).defined
    THEN Throw("Unsupported CAIP namespace", <<>>)
  ELSE LET payload == BuildFromPayload(1, namespace, ToLowerCase(ToBeHex(chainId)), Prefix0x)
       IN  IF ~payload.ok THEN payload
           ELSE Return(ToLowerCase(SliceFrom(payload.val, 2)))

\* buildAgentRegistryRecordKey(chainId, namespace)
BuildAgentRegistryRecordKey(chainId, namespace) ==
  IF ~CAIP_NAMESPACE_CODES(namespace).defined
    THEN Throw("Unsupported CAIP namespace", <<>>)
  ELSE LET chainIdentifierHex == Encode7930ChainIdentifierHex(chainId, namespace)
       IN  IF ~chainIdentifierHex.ok THEN chainIdentifierHex
           ELSE Return(KeyPrefix \o chainIdentifierHex.val)

\* ways of getting the payload-length check wrong
PayloadLengthOk(lengthCheck, agentIdHex, agentIdLength) ==
  IF lengthCheck = "chars" THEN Len(agentIdHex) = agentIdLength
  ELSE IF lengthCheck = "bytes" THEN Len(agentIdHex) = 2 * agentIdLength
  ELSE TRUE

\* decodeAgentRegistryRecord with such a payload-length check and the rest as
\* written
DecodeWith(valueHex, lengthCheck) ==
  IF ~StartsWith(valueHex, Prefix0x)
    THEN Throw("CAIP-350 segment must start with 0x", NoRecord)
  ELSE IF Len(valueHex) < ADDRESS_HEX_LENGTH + 2
    THEN Throw("Agent registry record value too short", NoRecord)
  ELSE
    LET addressText      == Slice(valueHex, 0, ADDRESS_HEX_LENGTH)
        agentIdLengthHex == Slice(valueHex, ADDRESS_HEX_LENGTH, ADDRESS_HEX_LENGTH + 2)
        agentIdLength    == ParseInt16(agentIdLengthHex)
    IN  IF agentIdLength.nan \/ agentIdLength.val < 0
          THEN Throw("Invalid agent ID length", NoRecord)
        ELSE
          LET agentIdHex   == ToLowerCase(SliceFrom(valueHex, ADDRESS_HEX_LENGTH + 2))
              agentIdBytes == GetBytes(Prefix0x \o agentIdHex)
          IN  IF ~agentIdBytes.ok THEN Throw(agentIdBytes.err, NoRecord)
              ELSE IF ~PayloadLengthOk(lengthCheck, agentIdHex, agentIdLength.val)
                THEN Throw("Agent ID length does not match payload", NoRecord)
              ELSE
                LET agentId == IF Len(agentIdBytes.val) = 0 THEN 0
                               ELSE BigIntOfHex(Hexlify(agentIdBytes.val))
                    normalizedAddress == GetAddress(addressText)
                IN  IF ~normalizedAddress.ok THEN Throw(normalizedAddress.err, NoRecord)
                    ELSE Return(AgentRegistryRecord(1, EIP155_CODE, 0,
                                                    normalizedAddress.val, agentId))

\* the declared length compared with the count of hex characters
DecodeLengthInChars(valueHex) == DecodeWith(valueHex, "chars")

\* the declared length not compared at all
DecodeNoLengthGate(valueHex) == DecodeWith(valueHex, "unchecked")

\* decodeAgentRegistryRecord with the address normalized before the payload is
\* looked at
DecodeAddressFirst(valueHex) ==
  IF ~StartsWith(valueHex, Prefix0x)
    THEN Throw("CAIP-350 segment must start with 0x", NoRecord)
  ELSE IF Len(valueHex) < ADDRESS_HEX_LENGTH + 2
    THEN Throw("Agent registry record value too short", NoRecord)
  ELSE
    LET addressText       == Slice(valueHex, 0, ADDRESS_HEX_LENGTH)
        normalizedAddress == GetAddress(addressText)
        agentIdLengthHex  == Slice(valueHex, ADDRESS_HEX_LENGTH, ADDRESS_HEX_LENGTH + 2)
        agentIdLength     == ParseInt16(agentIdLengthHex)
    IN  IF ~normalizedAddress.ok THEN Throw(normalizedAddress.err, NoRecord)
        ELSE IF agentIdLength.nan \/ agentIdLength.val < 0
          THEN Throw("Invalid agent ID length", NoRecord)
        ELSE
          LET agentIdHex   == ToLowerCase(SliceFrom(valueHex, ADDRESS_HEX_LENGTH + 2))
              agentIdBytes == GetBytes(Prefix0x \o agentIdHex)
          IN  IF ~agentIdBytes.ok THEN Throw(agentIdBytes.err, NoRecord)
              ELSE IF Len(agentIdBytes.val) # agentIdLength.val
                THEN Throw("Agent ID length does not match payload", NoRecord)
              ELSE
                LET agentId == IF Len(agentIdBytes.val) = 0 THEN 0
                               ELSE BigIntOfHex(Hexlify(agentIdBytes.val))
                IN  Return(AgentRegistryRecord(1, EIP155_CODE, 0,
                                               normalizedAddress.val, agentId))

\* decodeAgentRegistryRecord returning the address text as it was given
DecodeKeepingAddressText(valueHex) ==
  IF ~StartsWith(valueHex, Prefix0x)
    THEN Throw("CAIP-350 segment must start with 0x", NoRecord)
  ELSE IF Len(valueHex) < ADDRESS_HEX_LENGTH + 2
    THEN Throw("Agent registry record value too short", NoRecord)
  ELSE
    LET addressText      == Slice(valueHex, 0, ADDRESS_HEX_LENGTH)
        agentIdLengthHex == Slice(valueHex, ADDRESS_HEX_LENGTH, ADDRESS_HEX_LENGTH + 2)
        agentIdLength    == ParseInt16(agentIdLengthHex)
    IN  IF agentIdLength.nan \/ agentIdLength.val < 0
          THEN Throw("Invalid agent ID length", NoRecord)
        ELSE
          LET agentIdHex   == ToLowerCase(SliceFrom(valueHex, ADDRESS_HEX_LENGTH + 2))
              agentIdBytes == GetBytes(Prefix0x \o agentIdHex)
          IN  IF ~agentIdBytes.ok THEN Throw(agentIdBytes.err, NoRecord)
              ELSE IF Len(agentIdBytes.val) # agentIdLength.val
                THEN Throw("Agent ID length does not match payload", NoRecord)
              ELSE
                LET agentId == IF Len(agentIdBytes.val) = 0 THEN 0
                               ELSE BigIntOfHex(Hexlify(agentIdBytes.val))
                    normalizedAddress == GetAddress(addressText)
                IN  IF ~normalizedAddress.ok THEN Throw(normalizedAddress.err, NoRecord)
                    ELSE Return(AgentRegistryRecord(1, EIP155_CODE, 0,
                                                    addressText, agentId))

\* decodeAgentRegistryRecord accepting an address text only in its EIP-55
\* checksum form
DecodeChecksumTextOnly(valueHex) ==
  LET decoded == DecodeKeepingAddressText(valueHex)
  IN  IF decoded.ok /\ decoded.val.address # GetChecksumAddress(decoded.val.address)
        THEN Throw("bad address checksum", NoRecord)
        ELSE decoded

\* decodeAgentRegistryRecord refusing a payload with an upper-case letter
DecodeLowercasePayloadOnly(valueHex) ==
  IF SliceFrom(valueHex, ADDRESS_HEX_LENGTH + 2)
       # ToLowerCase(SliceFrom(valueHex, ADDRESS_HEX_LENGTH + 2))
    THEN Throw("invalid BytesLike value", NoRecord)
    ELSE DecodeWith(valueHex, "bytes")

\* decodeAgentRegistryRecord refusing a payload that starts with a zero byte
DecodeMinimalOnly(valueHex) ==
  IF Len(valueHex) >= ADDRESS_HEX_LENGTH + 4
     /\ Slice(valueHex, ADDRESS_HEX_LENGTH + 2, ADDRESS_HEX_LENGTH + 4) = <<"0","0">>
    THEN Throw("Agent ID is not minimally encoded", NoRecord)
    ELSE DecodeWith(valueHex, "bytes")

\* decodeAgentRegistryRecord asking for at least one payload character
DecodeNeedingPayload(valueHex) ==
  IF StartsWith(valueHex, Prefix0x) /\ Len(valueHex) = ADDRESS_HEX_LENGTH + 2
    THEN Throw("Agent registry record value too short", NoRecord)
    ELSE DecodeWith(valueHex, "bytes")

\* decodeAgentRegistryRecord(valueHex): the record, or the error thrown
DecodeAgentRegistryRecord(valueHex) ==
  IF ~StartsWith(valueHex, Prefix0x)
    THEN Throw("CAIP-350 segment must start with 0x", NoRecord)
  ELSE IF Len(valueHex) < ADDRESS_HEX_LENGTH + 2
    THEN Throw("Agent registry record value too short", NoRecord)
  ELSE
    LET addressText      == Slice(valueHex, 0, ADDRESS_HEX_LENGTH)
        agentIdLengthHex == Slice(valueHex, ADDRESS_HEX_LENGTH, ADDRESS_HEX_LENGTH + 2)
        agentIdLength    == ParseInt16(agentIdLengthHex)
    IN  IF agentIdLength.nan \/ agentIdLength.val < 0
          THEN Throw("Invalid agent ID length", NoRecord)
        ELSE
          LET agentIdHex   == ToLowerCase(SliceFrom(valueHex, ADDRESS_HEX_LENGTH + 2))
              agentIdBytes == GetBytes(Prefix0x \o agentIdHex)
          IN  IF ~agentIdBytes.ok THEN Throw(agentIdBytes.err, NoRecord)
              ELSE IF Len(agentIdBytes.val) # agentIdLength.val
                THEN Throw("Agent ID length does not match payload", NoRecord)
              ELSE
                LET agentId == IF Len(agentIdBytes.val) = 0 THEN 0
                               ELSE BigIntOfHex(Hexlify(agentIdBytes.val))
                    normalizedAddress == GetAddress(addressText)
                IN  IF ~normalizedAddress.ok THEN Throw(normalizedAddress.err, NoRecord)
                    ELSE Return(AgentRegistryRecord(1, EIP155_CODE, 0,
                                                    normalizedAddress.val, agentId))

\* recordMatchesAgent without the agent id comparison
MatchIgnoringAgentId(record, expected) ==
  IF record.version # 1 \/ record.chainType # EIP155_CODE THEN Return(FALSE)
  ELSE IF record.chainReference # expected.chainId THEN Return(FALSE)
  ELSE LET expectedAddress == GetAddress(expected.registryAddress)
       IN  IF ~expectedAddress.ok THEN Throw(expectedAddress.err, FALSE)
           ELSE IF expectedAddress.val # record.address THEN Return(FALSE)
           ELSE Return(TRUE)

\* recordMatchesAgent without the version and chain-type comparison
MatchIgnoringVersion(record, expected) ==
  IF record.chainReference # expected.chainId THEN Return(FALSE)
  ELSE LET expectedAddress == GetAddress(expected.registryAddress)
       IN  IF ~expectedAddress.ok THEN Throw(expectedAddress.err, FALSE)
           ELSE IF expectedAddress.val # record.address THEN Return(FALSE)
           ELSE IF record.agentId # expected.agentId THEN Return(FALSE)
           ELSE Return(TRUE)

\* recordMatchesAgent comparing the expected address as supplied
MatchRawAddress(record, expected) ==
  IF record.version # 1 \/ record.chainType # EIP155_CODE THEN Return(FALSE)
  ELSE IF record.chainReference # expected.chainId THEN Return(FALSE)
  ELSE IF expected.registryAddress # record.address THEN Return(FALSE)
  ELSE IF record.agentId # expected.agentId THEN Return(FALSE)
  ELSE Return(TRUE)

\* recordMatchesAgent(record, expected): the boolean, or the error thrown by
\* ethers.getAddress on the expected registry address
RecordMatchesAgent(record, expected) ==
  IF record.version # 1 \/ record.chainType # EIP155_CODE THEN Return(FALSE)
  ELSE IF record.chainReference # expected.chainId THEN Return(FALSE)
  ELSE LET expectedAddress == GetAddress(expected.registryAddress)
       IN  IF ~expectedAddress.ok THEN Throw(expectedAddress.err, FALSE)
           ELSE IF expectedAddress.val # record.address THEN Return(FALSE)
           ELSE IF record.agentId # expected.agentId THEN Return(FALSE)
           ELSE Return(TRUE)

\* ------------------------------------------------------------------------
\* tests/verify-ens.test.ts: the encoder of record values
\* ------------------------------------------------------------------------

\* encodeAgentRegistryRecord({registryAddress, agentId}), agentId >= 0
EncodeAgentRegistryRecord(registryAddress, agentId) ==
  LET addressText == GetAddress(registryAddress)
  IN  IF ~addressText.ok THEN addressText
      ELSE LET agentIdBytes     == GetBytes(ToBeHex(agentId)).val
               agentIdHex       == ToLowerCase(SliceFrom(Hexlify(agentIdBytes), 2))
               agentIdLengthHex == PadStart2(ToString16(Len(agentIdBytes)))
           IN  Return(addressText.val \o agentIdLengthHex \o agentIdHex)

\* ------------------------------------------------------------------------
\* utils/id-format: the parser of stored agent identifiers
\* ------------------------------------------------------------------------

DecDigits == <<"0","1","2","3","4","5","6","7","8","9">>
IsDecChar(c) == \E i \in 1..10 : DecDigits[i] = c
IsDecString(s) == Len(s) > 0 /\ \A i \in 1..Len(s) : IsDecChar(s[i])

RECURSIVE DecToInt(_)
DecToInt(s) ==
  IF Len(s) = 0 THEN 0
  ELSE 10 * DecToInt(SubSeq(s, 1, Len(s) - 1))
         + ((CHOOSE i \in 1..10 : DecDigits[i] = s[Len(s)]) - 1)

NoTokenInfo == [chainId |-> 0, tokenId |-> 0]

\* parseAgentId("<chainId>:<tokenId>"): the two integer parts, or a throw
ParseAgentId(agentId) ==
  IF \E i \in 1..Len(agentId) : agentId[i] = ":"
    THEN LET i       == CHOOSE k \in 1..Len(agentId) :
                          agentId[k] = ":" /\ \A j \in 1..(k - 1) : agentId[j] # ":"
             chainId == SubSeq(agentId, 1, i - 1)
             tokenId == SubSeq(agentId, i + 1, Len(agentId))
         IN  IF IsDecString(chainId) /\ IsDecString(tokenId)
               THEN Return([chainId |-> DecToInt(chainId), tokenId |-> DecToInt(tokenId)])
               ELSE Throw("Invalid AgentId format", NoTokenInfo)
    ELSE Throw("Invalid AgentId format", NoTokenInfo)

\* ------------------------------------------------------------------------
\* BigInt(value) and the key builder on the three forms of its argument
\* ------------------------------------------------------------------------

\* a chain id argument: bigint | number | string
BigIntForm(n) == [rep |-> "bigint", val |-> n, integral |-> TRUE, text |-> <<>>]
NumberForm(n) == [rep |-> "number", val |-> n, integral |-> TRUE, text |-> <<>>]
StringForm(t) == [rep |-> "string", val |-> 0, integral |-> TRUE, text |-> t]
\* the number n + 0.5
FractionForm(n) == [rep |-> "number", val |-> n, integral |-> FALSE, text |-> <<>>]

RECURSIVE TrimStart(_)
TrimStart(s) == IF Len(s) > 0 /\ IsWhiteSpace(s[1]) THEN TrimStart(Tail(s)) ELSE s

RECURSIVE TrimEnd(_)
TrimEnd(s) ==
  IF Len(s) > 0 /\ IsWhiteSpace(s[Len(s)]) THEN TrimEnd(SubSeq(s, 1, Len(s) - 1)) ELSE s

IsRadixString(s, radix) ==
  Len(s) > 0 /\ \A i \in 1..Len(s) : IsHexChar(s[i]) /\ HexVal(s[i]) < radix

RECURSIVE RadixToInt(_, _)
RadixToInt(s, radix) ==
  IF Len(s) = 0 THEN 0
  ELSE radix * RadixToInt(SubSeq(s, 1, Len(s) - 1), radix) + HexVal(s[Len(s)])

\* StringToBigInt with every digit string read as hexadecimal
StringToBigIntAsHex(str) ==
  LET s == TrimEnd(TrimStart(str))
  IN  IF Len(s) = 0 THEN Return(0)
      ELSE IF IsRadixString(s, 16) THEN Return(RadixToInt(s, 16))
      ELSE Throw("SyntaxError: Cannot convert to a BigInt", 0)

\* StringToBigInt of ECMAScript: white space trimmed, the empty string is 0,
\* a signed decimal literal or an unsigned 0x, 0o or 0b literal, else a throw
StringToBigInt(str) ==
  LET s      == TrimEnd(TrimStart(str))
      radix  == IF Len(s) < 2 \/ s[1] # "0" THEN 10
                ELSE IF s[2] \in {"x", "X"} THEN 16
                ELSE IF s[2] \in {"o", "O"} THEN 8
                ELSE IF s[2] \in {"b", "B"} THEN 2
                ELSE 10
      signed == radix = 10 /\ Len(s) > 0 /\ s[1] \in {"+", "-"}
      digits == IF radix # 10 THEN SubSeq(s, 3, Len(s))
                ELSE IF signed THEN Tail(s) ELSE s
  IN  IF Len(s) = 0 THEN Return(0)
      ELSE IF ~IsRadixString(digits, radix)
        THEN Throw("SyntaxError: Cannot convert to a BigInt", 0)
      ELSE IF signed /\ s[1] = "-" THEN Return(0 - RadixToInt(digits, radix))
      ELSE Return(RadixToInt(digits, radix))

\* BigInt(value): a bigint as it is, an integral number as that integer, a
\* string by StringToBigInt; a throw for a number with a fraction
ToBigInt(value) ==
  IF value.rep = "bigint" THEN Return(value.val)
  ELSE IF value.rep = "number"
    THEN IF value.integral THEN Return(value.val)
         ELSE Throw("RangeError: not an integer", 0)
  ELSE StringToBigInt(value.text)

\* buildAgentRegistryRecordKey(chainId, namespace) on an argument in any of its
\* forms: the namespace check, then BigInt(chainId), then the encoding
BuildAgentRegistryRecordKeyOf(chainId, namespace) ==
  IF ~CAIP_NAMESPACE_CODES(namespace).defined
    THEN Throw("Unsupported CAIP namespace", <<>>)
  ELSE LET chainReference == ToBigInt(chainId)
       IN  IF ~chainReference.ok THEN Throw(chainReference.err, <<>>)
           ELSE BuildAgentRegistryRecordKey(chainReference.val, namespace)

\* ------------------------------------------------------------------------
\* Inputs of the model
\* ------------------------------------------------------------------------

BaseAddresses == {AddrD8, Addr12, AddrAB}

\* the letter-case forms of one 20-byte address
LowerForm(b) == Prefix0x \o b
UpperForm(b) == Prefix0x \o ToUpperCase(b)
ChecksumForm(b) == GetChecksumAddress(Prefix0x \o b)
\* the checksum form with the case of its first letter flipped
BadChecksumForm(b) ==
  LET cs == ChecksumForm(b)
      i  == CHOOSE k \in 3..42 :
              (IsUpperAF(cs[k]) \/ IsLowerAF(cs[k]))
              /\ \A j \in 3..(k - 1) : ~(IsUpperAF(cs[j]) \/ IsLowerAF(cs[j]))
  IN  [cs EXCEPT ![i] = IF IsUpperAF(cs[i]) THEN ToLowerChar(cs[i]) ELSE ToUpperChar(cs[i])]
\* 42 characters, one of them no hex digit
NonHexForm(b) == [LowerForm(b) EXCEPT ![3] = "g"]

ValidForms(b) == {LowerForm(b), UpperForm(b), ChecksumForm(b)}
InvalidForms(b) == {BadChecksumForm(b), NonHexForm(b)}

\* agent ids: the boundary values of each byte width, and the ids of the tests
AgentIds ==
  {0, 42, 43, 167}
    \cup {256 ^ k : k \in 0..(MaxIdBytes - 1)}
    \cup {(256 ^ k) - 1 : k \in 1..MaxIdBytes}

\* ------------------------------------------------------------------------
\* State
\* ------------------------------------------------------------------------

VARIABLES
  registrationFile,   \* per agent: Agent.registrationFile (endpoints, agentId, updatedAt)
  dirtyMetadata,      \* per agent: Agent._dirtyMetadata
  lastRegisteredEns,  \* per agent: Agent._lastRegisteredEns
  registries,         \* SDK._registries: whether IDENTITY has an address
  identityRegistry,   \* SDK._identityRegistry, the lazily created handle
  pc,                 \* per verifyENSName call: the await it is suspended at
  loc,                \* per call: the local variables of the call
  result,             \* per call: pending, true, false or throw
  log,                \* per call: the external calls made, with what they returned
  fn,                 \* the pure function last applied
  input,              \* its arguments
  output              \* what it returned or threw

agentVars == <<registrationFile, dirtyMetadata, lastRegisteredEns>>
sdkVars == <<registries, identityRegistry>>
callVars == <<pc, loc, result, log>>
pureVars == <<fn, input, output>>
vars == <<registrationFile, dirtyMetadata, lastRegisteredEns, registries,
          identityRegistry, pc, loc, result, log, fn, input, output>>

\* the Agent objects of the model; they share one SDK and one provider
Agents == {1, 2}

\* the calls of the model, call c being made on agent c
CallIds == {1, 2}
AgentOf(c) == c

\* string | undefined
Some(v) == [defined |-> TRUE, value |-> v]
UndefinedName == [defined |-> FALSE, value |-> ""]
UndefinedId == [defined |-> FALSE, value |-> <<>>]

\* what an awaited external call produced
Pending == [tag |-> "pending", text |-> <<>>]
Threw == [tag |-> "throw", text |-> <<>>]
Null == [tag |-> "null", text |-> <<>>]
Resolver == [tag |-> "resolver", text |-> <<>>]
Contract == [tag |-> "contract", text |-> <<>>]
Value(t) == [tag |-> "value", text |-> t]

\* one external call: provider.getResolver(name), resolver.getText(key),
\* sdk.getIdentityRegistry() or identityRegistry.getAddress()
LogEntry(op, name, key, ret) == [op |-> op, name |-> name, key |-> key, ret |-> ret]

\* Agent.ensEndpoint: the value of the first ENS endpoint
EnsEndpoint(rf) ==
  IF \E i \in 1..Len(rf.endpoints) : rf.endpoints[i].type = "ENS"
    THEN LET i == CHOOSE k \in 1..Len(rf.endpoints) :
                    rf.endpoints[k].type = "ENS"
                    /\ \A j \in 1..(k - 1) : rf.endpoints[j].type # "ENS"
         IN  Some(rf.endpoints[i].value)
    ELSE UndefinedName

\* ------------------------------------------------------------------------
\* Initial states
\* ------------------------------------------------------------------------

Endpoint(type, value) == [type |-> type, value |-> value]

InitEndpoints ==
  { <<>>,
    <<Endpoint("ENS", "test-agent.eth")>>,
    <<Endpoint("MCP", "https://mcp.example"), Endpoint("ENS", "test-agent.eth")>>,
    <<Endpoint("ENS", "other.eth"), Endpoint("ENS", "test-agent.eth")>>,
    <<Endpoint("ENS", "")>> }

InitAgentIds ==
  { UndefinedId,
    Some(<<>>),
    Some(<<"1", ":", "4", "2">>),
    Some(<<"1", ":", "0">>),
    Some(<<"1", "3", "7", ":", "1", "6", "7">>),
    Some(<<"4", "2">>),
    Some(<<"x", ":", "4", "2">>) }

\* matcher: what recordMatchesAgent gave, once it was run
NoLocals ==
  [ensName |-> "", chainId |-> 0, tokenId |-> 0, normalizedKey |-> <<>>,
   fetched |-> Pending, loaded |-> FALSE, record |-> NoRecord, matcher |-> "not run"]

\* an agent that was never registered and has no endpoint
Unregistered == [endpoints |-> <<>>, agentId |-> UndefinedId, updatedAt |-> 0]

Init ==
  /\ registrationFile \in
       [Agents -> [endpoints : InitEndpoints, agentId : InitAgentIds, updatedAt : {0}]]
  /\ registrationFile[2] = Unregistered
  /\ dirtyMetadata = [a \in Agents |-> {}]
  /\ lastRegisteredEns = [a \in Agents |-> UndefinedName]
  /\ registries \in [IDENTITY : BOOLEAN]
  /\ identityRegistry = FALSE
  /\ pc = [c \in CallIds |-> "idle"]
  /\ loc = [c \in CallIds |-> NoLocals]
  /\ result = [c \in CallIds |-> "pending"]
  /\ log = [c \in CallIds |-> <<>>]
  /\ fn = "none"
  /\ input = <<>>
  /\ output = <<>>

\* ------------------------------------------------------------------------
\* What the provider, the resolver and the identity registry may answer
\* ------------------------------------------------------------------------

Enc(address, agentId) == EncodeAgentRegistryRecord(address, agentId).val

WellFormedValues ==
  { Enc(ChecksumForm(AddrD8), id) : id \in {0, 42, 43, 167} }
    \cup { Enc(ChecksumForm(AddrAB), 42),
           LowerForm(AddrD8) \o <<"0","1","2","a">>,
           UpperForm(AddrD8) \o <<"0","1","2","a">>,
           ChecksumForm(AddrD8) \o <<"0","0">>,
           ChecksumForm(AddrD8) \o <<"0","2","0","0","2","a">> }

\* one value per way of being malformed
MissingPrefixValue == SliceFrom(Enc(ChecksumForm(AddrD8), 42), 2)
TooShortValue == Slice(Enc(ChecksumForm(AddrD8), 42), 0, 43)
BadLengthFieldValue == ChecksumForm(AddrD8) \o <<"g","1","2","a">>
NonHexPayloadValue == ChecksumForm(AddrD8) \o <<"0","1","z","z">>
OddPayloadValue == ChecksumForm(AddrD8) \o <<"0","1","2","a","2">>
LengthMismatchValue == ChecksumForm(AddrD8) \o <<"0","2","2","a">>
BadChecksumValue == BadChecksumForm(AddrD8) \o <<"0","1","2","a">>
NonHexAddressValue == NonHexForm(AddrD8) \o <<"0","1","2","a">>

MalformedValues ==
  { MissingPrefixValue, TooShortValue, BadLengthFieldValue, NonHexPayloadValue,
    OddPayloadValue, LengthMismatchValue, BadChecksumValue, NonHexAddressValue }

ResolverOutcomes == {Resolver, Null, Threw}
TextOutcomes ==
  {Null, Threw} \cup { Value(t) : t \in WellFormedValues \cup MalformedValues \cup {<<>>} }

RegistryStrings ==
  ValidForms(AddrD8)
    \cup { AddrD8, ChecksumForm(AddrAB), BadChecksumForm(AddrD8), <<"0","x","1","2">> }
AddressOutcomes == {Threw} \cup { Value(t) : t \in RegistryStrings }

\* ------------------------------------------------------------------------
\* Agent.verifyENSName, one action per await
\* ------------------------------------------------------------------------

Finish(c, r) ==
  /\ pc' = [pc EXCEPT ![c] = "done"]
  /\ result' = [result EXCEPT ![c] = r]

Returned(c, ret) == [log[c] EXCEPT ![Len(log[c])].ret = ret]

\* fetchAgentRegistryRecord after provider.getResolver settled: null when it
\* threw or gave no resolver, else resolver.getText is to be called
ResolverUsable(outcome) == outcome.tag = "resolver"

\* the fetched text lower-cased like the key
FetchedValueLowercased(outcome) ==
  IF outcome.tag = "throw" THEN Null
  ELSE [outcome EXCEPT !.text = ToLowerCase(@)]

\* fetchAgentRegistryRecord after resolver.getText settled: null when it
\* threw, else the text as returned
FetchedValue(outcome) == IF outcome.tag = "throw" THEN Null ELSE outcome

\* the loader returning the decoded record as decoded, chain reference 0
LoadedRecordNoChain(value, chainId) ==
  IF value.tag # "value" \/ value.text = <<>> THEN [found |-> FALSE, rec |-> NoRecord]
  ELSE LET decoded == DecodeAgentRegistryRecord(value.text)
       IN  IF ~decoded.ok THEN [found |-> FALSE, rec |-> NoRecord]
           ELSE [found |-> TRUE, rec |-> decoded.val]

\* loadAgentRegistryRecord after the fetch: null for no value or a decode
\* failure, else the decoded record with the chain reference injected
LoadedRecord(value, chainId) ==
  IF value.tag # "value" \/ value.text = <<>> THEN [found |-> FALSE, rec |-> NoRecord]
  ELSE LET decoded == DecodeAgentRegistryRecord(value.text)
       IN  IF ~decoded.ok THEN [found |-> FALSE, rec |-> NoRecord]
           ELSE [found |-> TRUE, rec |-> [decoded.val EXCEPT !.chainReference = chainId]]

\* a handle that can be handed out once only
GetIdentityRegistrySingleUse == identityRegistry \/ ~registries.IDENTITY

\* SDK.getIdentityRegistry(): throws when the handle is unset and no IDENTITY
\* address is configured; creates the handle on first use
GetIdentityRegistryThrows == ~identityRegistry /\ ~registries.IDENTITY

\* VerifyStart going on with chain 1 and token 0 when the stored identifier
\* does not parse
VerifyStartUnparsedDefault(c) ==
  /\ pc[c] = "idle"
  /\ UNCHANGED <<agentVars, sdkVars, pureVars>>
  /\ LET ensName == EnsEndpoint(registrationFile[AgentOf(c)])
         agentId == registrationFile[AgentOf(c)].agentId
     IN  IF ~ensName.defined \/ ensName.value = "" \/ ~agentId.defined \/ agentId.value = <<>>
           THEN Finish(c, "false") /\ UNCHANGED <<loc, log>>
         ELSE
           LET parsed    == ParseAgentId(agentId.value)
               tokenInfo == IF parsed.ok THEN parsed.val ELSE [chainId |-> 1, tokenId |-> 0]
               recordKey == BuildAgentRegistryRecordKey(tokenInfo.chainId, "eip155")
           IN  /\ loc' = [loc EXCEPT ![c] =
                            [@ EXCEPT !.ensName = ensName.value,
                                      !.chainId = tokenInfo.chainId,
                                      !.tokenId = tokenInfo.tokenId,
                                      !.normalizedKey = ToLowerCase(recordKey.val)]]
               /\ log' = [log EXCEPT ![c] =
                            Append(@, LogEntry("getResolver", ensName.value, <<>>, Pending))]
               /\ pc' = [pc EXCEPT ![c] = "getResolver"]
               /\ UNCHANGED result

\* the synchronous head of verifyENSName and of loadAgentRegistryRecord, up to
\* the call of provider.getResolver
VerifyStart(c) ==
  /\ pc[c] = "idle"
  /\ UNCHANGED <<agentVars, sdkVars, pureVars>>
  /\ LET ensName == EnsEndpoint(registrationFile[AgentOf(c)])
         agentId == registrationFile[AgentOf(c)].agentId
     IN  IF ~ensName.defined \/ ensName.value = "" \/ ~agentId.defined \/ agentId.value = <<>>
           THEN Finish(c, "false") /\ UNCHANGED <<loc, log>>
         ELSE
           LET tokenInfo == ParseAgentId(agentId.value)
           IN  IF ~tokenInfo.ok THEN Finish(c, "false") /\ UNCHANGED <<loc, log>>
               ELSE
                 LET recordKey == BuildAgentRegistryRecordKey(tokenInfo.val.chainId, "eip155")
                 IN  IF ~recordKey.ok THEN Finish(c, "throw") /\ UNCHANGED <<loc, log>>
                     ELSE
                       /\ loc' = [loc EXCEPT ![c] =
                                    [@ EXCEPT !.ensName = ensName.value,
                                              !.chainId = tokenInfo.val.chainId,
                                              !.tokenId = tokenInfo.val.tokenId,
                                              !.normalizedKey = ToLowerCase(recordKey.val)]]
                       /\ log' = [log EXCEPT ![c] =
                                    Append(@, LogEntry("getResolver", ensName.value, <<>>, Pending))]
                       /\ pc' = [pc EXCEPT ![c] = "getResolver"]
                       /\ UNCHANGED result

\* GetResolverSettles building the key from the agent id stored by now
GetResolverSettlesRereading(c) ==
  /\ pc[c] = "getResolver"
  /\ UNCHANGED <<agentVars, sdkVars, pureVars>>
  /\ \E outcome \in ResolverOutcomes :
       IF ResolverUsable(outcome)
         THEN LET stored == ParseAgentId(registrationFile[AgentOf(c)].agentId.value).val
                  key    == BuildAgentRegistryRecordKey(stored.chainId, "eip155").val
              IN  /\ log' = [log EXCEPT ![c] =
                               Append(Returned(c, outcome),
                                      LogEntry("getText", "", ToLowerCase(key), Pending))]
                  /\ pc' = [pc EXCEPT ![c] = "getText"]
                  /\ UNCHANGED <<loc, result>>
         ELSE /\ log' = [log EXCEPT ![c] = Returned(c, outcome)]
              /\ loc' = [loc EXCEPT ![c].fetched = Null]
              /\ Finish(c, "false")

\* GetResolverSettles asking the provider a second time when the first
\* request threw
GetResolverSettlesRetrying(c) ==
  /\ pc[c] = "getResolver"
  /\ UNCHANGED <<agentVars, sdkVars, pureVars>>
  /\ \E outcome \in ResolverOutcomes :
       IF ResolverUsable(outcome)
         THEN /\ log' = [log EXCEPT ![c] =
                           Append(Returned(c, outcome),
                                  LogEntry("getText", "", loc[c].normalizedKey, Pending))]
              /\ pc' = [pc EXCEPT ![c] = "getText"]
              /\ UNCHANGED <<loc, result>>
         ELSE IF outcome.tag = "throw" /\ Len(log[c]) = 1
         THEN /\ log' = [log EXCEPT ![c] =
                           Append(Returned(c, outcome),
                                  LogEntry("getResolver", loc[c].ensName, <<>>, Pending))]
              /\ UNCHANGED <<pc, loc, result>>
         ELSE /\ log' = [log EXCEPT ![c] = Returned(c, outcome)]
              /\ loc' = [loc EXCEPT ![c].fetched = Null]
              /\ Finish(c, "false")

\* provider.getResolver(ensName) settles
GetResolverSettles(c) ==
  /\ pc[c] = "getResolver"
  /\ UNCHANGED <<agentVars, sdkVars, pureVars>>
  /\ \E outcome \in ResolverOutcomes :
       IF ResolverUsable(outcome)
         THEN /\ log' = [log EXCEPT ![c] =
                           Append(Returned(c, outcome),
                                  LogEntry("getText", "", loc[c].normalizedKey, Pending))]
              /\ pc' = [pc EXCEPT ![c] = "getText"]
              /\ UNCHANGED <<loc, result>>
         ELSE /\ log' = [log EXCEPT ![c] = Returned(c, outcome)]
              /\ loc' = [loc EXCEPT ![c].fetched = Null]
              /\ Finish(c, "false")

\* GetTextSettles with the registry handle obtained before the record is
\* looked at
GetTextSettlesRegistryFirst(c) ==
  /\ pc[c] = "getText"
  /\ UNCHANGED <<agentVars, registries, pureVars>>
  /\ \E outcome \in TextOutcomes :
       LET value  == FetchedValue(outcome)
           record == LoadedRecord(value, loc[c].chainId)
           newLoc == [loc[c] EXCEPT !.fetched = value, !.loaded = record.found,
                                    !.record = record.rec]
       IN  /\ loc' = [loc EXCEPT ![c] = newLoc]
           /\ IF GetIdentityRegistryThrows
                THEN /\ log' = [log EXCEPT ![c] =
                                  Append(Returned(c, outcome),
                                         LogEntry("getIdentityRegistry", "", <<>>, Threw))]
                     /\ Finish(c, "false")
                     /\ UNCHANGED identityRegistry
              ELSE IF ~record.found
                THEN /\ identityRegistry' = TRUE
                     /\ log' = [log EXCEPT ![c] =
                                  Append(Returned(c, outcome),
                                         LogEntry("getIdentityRegistry", "", <<>>, Contract))]
                     /\ Finish(c, "false")
              ELSE /\ identityRegistry' = TRUE
                   /\ log' = [log EXCEPT ![c] =
                                Returned(c, outcome)
                                  \o <<LogEntry("getIdentityRegistry", "", <<>>, Contract),
                                       LogEntry("getAddress", "", <<>>, Pending)>>]
                   /\ pc' = [pc EXCEPT ![c] = "getAddress"]
                   /\ UNCHANGED result

\* resolver.getText(normalizedKey) settles; the record is decoded and, when
\* there is one, the registry handle is obtained and its getAddress called
GetTextSettles(c) ==
  /\ pc[c] = "getText"
  /\ UNCHANGED <<agentVars, registries, pureVars>>
  /\ \E outcome \in TextOutcomes :
       LET value  == FetchedValue(outcome)
           record == LoadedRecord(value, loc[c].chainId)
           newLoc == [loc[c] EXCEPT !.fetched = value, !.loaded = record.found,
                                    !.record = record.rec]
       IN  /\ loc' = [loc EXCEPT ![c] = newLoc]
           /\ IF ~record.found
                THEN /\ log' = [log EXCEPT ![c] = Returned(c, outcome)]
                     /\ Finish(c, "false")
                     /\ UNCHANGED identityRegistry
              ELSE IF GetIdentityRegistryThrows
                THEN /\ log' = [log EXCEPT ![c] =
                                  Append(Returned(c, outcome),
                                         LogEntry("getIdentityRegistry", "", <<>>, Threw))]
                     /\ Finish(c, "false")
                     /\ UNCHANGED identityRegistry
              ELSE /\ identityRegistry' = TRUE
                   /\ log' = [log EXCEPT ![c] =
                                Returned(c, outcome)
                                  \o <<LogEntry("getIdentityRegistry", "", <<>>, Contract),
                                       LogEntry("getAddress", "", <<>>, Pending)>>]
                   /\ pc' = [pc EXCEPT ![c] = "getAddress"]
                   /\ UNCHANGED result

\* the outcome of verifyENSName once the registry address is known
MatchOutcome(record, chainId, registryAddress, tokenId) ==
  LET m == RecordMatchesAgent(record,
             [chainId |-> chainId, registryAddress |-> registryAddress, agentId |-> tokenId])
  IN  IF ~m.ok THEN "throw" ELSE IF m.val THEN "true" ELSE "false"

\* GetAddressSettles without the try/catch around the registry lookup
GetAddressSettlesUncaught(c) ==
  /\ pc[c] = "getAddress"
  /\ UNCHANGED <<agentVars, sdkVars, pureVars>>
  /\ \E outcome \in AddressOutcomes :
       /\ log' = [log EXCEPT ![c] = Returned(c, outcome)]
       /\ IF outcome.tag = "throw" THEN Finish(c, "throw") /\ UNCHANGED loc
          ELSE LET m == MatchOutcome(loc[c].record, loc[c].chainId, outcome.text,
                                     loc[c].tokenId)
               IN  /\ loc' = [loc EXCEPT ![c].matcher = m]
                   /\ Finish(c, m)

\* GetAddressSettles remembering a verified name as the registered one
GetAddressSettlesRemembering(c) ==
  /\ pc[c] = "getAddress"
  /\ UNCHANGED <<registrationFile, dirtyMetadata, sdkVars, pureVars>>
  /\ \E outcome \in AddressOutcomes :
       /\ log' = [log EXCEPT ![c] = Returned(c, outcome)]
       /\ IF outcome.tag = "throw"
            THEN Finish(c, "false") /\ UNCHANGED <<loc, lastRegisteredEns>>
          ELSE LET m == MatchOutcome(loc[c].record, loc[c].chainId, outcome.text,
                                     loc[c].tokenId)
               IN  /\ loc' = [loc EXCEPT ![c].matcher = m]
                   /\ lastRegisteredEns' =
                        IF m = "true"
                          THEN [lastRegisteredEns EXCEPT ![AgentOf(c)] = Some(loc[c].ensName)]
                          ELSE lastRegisteredEns
                   /\ Finish(c, m)

\* identityRegistry.getAddress() settles; the matcher decides
GetAddressSettles(c) ==
  /\ pc[c] = "getAddress"
  /\ UNCHANGED <<agentVars, sdkVars, pureVars>>
  /\ \E outcome \in AddressOutcomes :
       /\ log' = [log EXCEPT ![c] = Returned(c, outcome)]
       /\ IF outcome.tag = "throw" THEN Finish(c, "false") /\ UNCHANGED loc
          ELSE LET m == MatchOutcome(loc[c].record, loc[c].chainId, outcome.text,
                                     loc[c].tokenId)
               IN  /\ loc' = [loc EXCEPT ![c].matcher = m]
                   /\ Finish(c, m)

Next ==
  \E c \in {1} :
    \/ VerifyStart(c)
    \/ GetResolverSettles(c)
    \/ GetTextSettles(c)
    \/ GetAddressSettles(c)

Spec == Init /\ [][Next]_vars

\* the provider and the registry answer, but the resolver's getText may stay
\* without an answer for ever
LiveSpecTextMayHang ==
  /\ Init
  /\ [][Next]_vars
  /\ WF_vars(GetResolverSettles(1))
  /\ WF_vars(GetAddressSettles(1))

\* WF_vars(GetTextSettles(c)) written out: GetTextSettles(c) is enabled exactly
\* when the call is suspended at getText, null being a possible answer
TextSettlesFairly(c) ==
  \/ []<>(pc[c] # "getText")
  \/ []<><<GetTextSettles(c)>>_vars

\* one verifyENSName call each of whose awaited external calls settles: a
\* promise that settles resumes the function awaiting it
LiveSpec ==
  /\ Init
  /\ [][Next]_vars
  /\ WF_vars(GetResolverSettles(1))
  /\ TextSettlesFairly(1)
  /\ WF_vars(GetAddressSettles(1))

\* ------------------------------------------------------------------------
\* Two agents of one SDK verifying concurrently
\* ------------------------------------------------------------------------

\* two registered agents with an ENS name, on chain 1 and on chain 137
ConcAgents ==
  << [endpoints |-> <<Endpoint("ENS", "test-agent.eth")>>,
      agentId |-> Some(<<"1", ":", "4", "2">>), updatedAt |-> 0],
     [endpoints |-> <<Endpoint("ENS", "other.eth")>>,
      agentId |-> Some(<<"1", "3", "7", ":", "1", "6", "7">>), updatedAt |-> 0] >>

ConcInit ==
  /\ registrationFile = [a \in Agents |-> ConcAgents[a]]
  /\ dirtyMetadata = [a \in Agents |-> {}]
  /\ lastRegisteredEns = [a \in Agents |-> UndefinedName]
  /\ registries \in [IDENTITY : BOOLEAN]
  /\ identityRegistry = FALSE
  /\ pc = [c \in CallIds |-> "idle"]
  /\ loc = [c \in CallIds |-> NoLocals]
  /\ result = [c \in CallIds |-> "pending"]
  /\ log = [c \in CallIds |-> <<>>]
  /\ fn = "none"
  /\ input = <<>>
  /\ output = <<>>

\* the awaits of the two calls interleave in any order
ConcNext ==
  \E c \in CallIds :
    \/ VerifyStart(c)
    \/ GetResolverSettles(c)
    \/ GetTextSettles(c)
    \/ GetAddressSettles(c)

ConcSpec == ConcInit /\ [][ConcNext]_vars

\* ------------------------------------------------------------------------
\* An agent edited while its verification is pending
\* ------------------------------------------------------------------------

\* the names setENS is called with, and the identifier a registration stores
EnsNames == {"test-agent.eth", "other.eth"}
MintedAgentIds == { <<"1", "3", "7", ":", "1", "6", "7">> }

\* Math.floor(Date.now() / 1000): not before the last value stored
Now(a) == registrationFile[a].updatedAt .. MaxClock

IsNoEnsEndpoint(ep) == ep.type # "ENS"

\* Agent.setENS(name): the ENS endpoints are replaced by one of that name,
\* agentName is marked dirty when the name is not the registered one
SetENS(a) ==
  /\ \E name \in EnsNames, now \in Now(a) :
       /\ registrationFile' =
            [registrationFile EXCEPT
               ![a].endpoints = Append(SelectSeq(@, IsNoEnsEndpoint), Endpoint("ENS", name)),
               ![a].updatedAt = now]
       /\ dirtyMetadata' =
            IF Some(name) # lastRegisteredEns[a]
              THEN [dirtyMetadata EXCEPT ![a] = @ \cup {"agentName"}]
              ELSE dirtyMetadata
  /\ UNCHANGED <<lastRegisteredEns, sdkVars, callVars, pureVars>>

\* Agent._registerWithoutUri once its transaction is confirmed: the handle it
\* took from the SDK exists and the minted identifier is stored
RegisterStoresAgentId(a) ==
  /\ ~GetIdentityRegistryThrows
  /\ identityRegistry' = TRUE
  /\ \E agentId \in MintedAgentIds, now \in Now(a) :
       registrationFile' =
         [registrationFile EXCEPT ![a].agentId = Some(agentId), ![a].updatedAt = now]
  /\ UNCHANGED <<dirtyMetadata, lastRegisteredEns, registries, callVars, pureVars>>

\* a registered agent with an ENS name, loaded from its registration or
\* registered through this object
EditInit ==
  /\ registrationFile = [a \in Agents |-> IF a = 1 THEN ConcAgents[1] ELSE Unregistered]
  /\ dirtyMetadata = [a \in Agents |-> {}]
  /\ lastRegisteredEns \in
       { [a \in Agents |-> IF a = 1 THEN n ELSE UndefinedName] :
           n \in {UndefinedName, Some("test-agent.eth")} }
  /\ registries \in [IDENTITY : BOOLEAN]
  /\ identityRegistry = FALSE
  /\ pc = [c \in CallIds |-> "idle"]
  /\ loc = [c \in CallIds |-> NoLocals]
  /\ result = [c \in CallIds |-> "pending"]
  /\ log = [c \in CallIds |-> <<>>]
  /\ fn = "none"
  /\ input = <<>>
  /\ output = <<>>

\* the steps of one verifyENSName call, with calls of setENS and the end of a
\* registration in between
EditNext ==
  \/ VerifyStart(1)
  \/ GetResolverSettles(1)
  \/ GetTextSettles(1)
  \/ GetAddressSettles(1)
  \/ SetENS(1)
  \/ RegisterStoresAgentId(1)

EditSpec == EditInit /\ [][EditNext]_vars

\* ------------------------------------------------------------------------
\* The pure functions, applied to inputs drawn from bounded sets
\* ------------------------------------------------------------------------

AddressTexts ==
  UNION { ValidForms(b) \cup InvalidForms(b) : b \in {AddrD8, Addr12} }

LengthFields ==
  { <<"0","0">>, <<"0","1">>, <<"0","2">>, <<"0","3">>, <<"1","g">>, <<"g","1">>,
    <<" ","1">>, <<"-","1">>, <<"+","1">>, <<"-","0">>, <<"0","x">>, <<"0","X">> }

\* the minimal big-endian hex of the agent ids, and payloads no encoder emits
Payloads ==
  { SliceFrom(ToBeHex(id), 2) : id \in AgentIds }
    \cup { <<>>, <<"A","7">>, <<"0","0","2","a">>, <<"a">>, <<"z","z">> }

DecodeInputs ==
  { a \o l \o p : a \in AddressTexts, l \in LengthFields, p \in Payloads }
    \cup MalformedValues
    \cup { <<>>, Prefix0x, ChecksumForm(AddrD8), AddrD8 \o <<"0","0","0","0">> }

EncodeAddresses == AddressTexts \cup {AddrD8}

MatchRecords ==
  [version : {1, 2}, chainType : {EIP155_CODE, 1}, chainReference : {1, 137},
   address : {ChecksumForm(AddrD8), LowerForm(AddrD8), ChecksumForm(AddrAB)},
   agentId : {42, 43}]

MatchExpected ==
  [chainId : {1, 137},
   registryAddress : ValidForms(AddrD8)
                       \cup {ChecksumForm(AddrAB), LowerForm(AddrAB), BadChecksumForm(AddrD8)},
   agentId : {42, 43}]

ChainIds == {-1, 0, 1, 137, 255, 256, 11155111}
Namespaces == {"eip155", "solana", "", "constructor"}

ApplyDecode ==
  /\ fn = "none"
  /\ \E valueHex \in DecodeInputs :
       /\ fn' = "decodeAgentRegistryRecord"
       /\ input' = [valueHex |-> valueHex]
       /\ output' = DecodeAgentRegistryRecord(valueHex)
  /\ UNCHANGED <<agentVars, sdkVars, callVars>>

ApplyEncode ==
  /\ fn = "none"
  /\ \E registryAddress \in EncodeAddresses, agentId \in AgentIds :
       /\ fn' = "encodeAgentRegistryRecord"
       /\ input' = [registryAddress |-> registryAddress, agentId |-> agentId]
       /\ output' = EncodeAgentRegistryRecord(registryAddress, agentId)
  /\ UNCHANGED <<agentVars, sdkVars, callVars>>

ApplyMatch ==
  /\ fn = "none"
  /\ \E record \in MatchRecords, expected \in MatchExpected :
       /\ fn' = "recordMatchesAgent"
       /\ input' = [record |-> record, expected |-> expected]
       /\ output' = RecordMatchesAgent(record, expected)
  /\ UNCHANGED <<agentVars, sdkVars, callVars>>

ApplyBuildKey ==
  /\ fn = "none"
  /\ \E chainId \in ChainIds, namespace \in Namespaces :
       /\ fn' = "buildAgentRegistryRecordKey"
       /\ input' = [chainId |-> chainId, namespace |-> namespace]
       /\ output' = BuildAgentRegistryRecordKey(chainId, namespace)
  /\ UNCHANGED <<agentVars, sdkVars, callVars>>

RECURSIVE ToString10(_)
\* the decimal digits of n >= 0
ToString10(n) ==
  IF n < 10 THEN <<DecDigits[n + 1]>>
            ELSE Append(ToString10(n \div 10), DecDigits[(n % 10) + 1])

\* String(n)
DecimalText(n) == IF n < 0 THEN <<"-">> \o ToString10(0 - n) ELSE ToString10(n)

\* the forms a caller may give the chain reference n in
FormsOf(n) == {BigIntForm(n), NumberForm(n), StringForm(DecimalText(n))}

\* further arguments: hexadecimal, padded and empty strings, no number at all
OtherChainIdForms ==
  { StringForm(<<"0","x","8","9">>), StringForm(<<" ","1","3","7"," ">>),
    StringForm(<<"0","0","1","3","7">>), StringForm(<<>>),
    StringForm(<<"1",".","5">>), StringForm(<<"m","a","i","n","n","e","t">>),
    FractionForm(1) }

ChainIdForms == UNION { FormsOf(n) : n \in ChainIds } \cup OtherChainIdForms

ApplyBuildKeyOf ==
  /\ fn = "none"
  /\ \E chainId \in ChainIdForms, namespace \in Namespaces :
       /\ fn' = "buildAgentRegistryRecordKeyOf"
       /\ input' = [chainId |-> chainId, namespace |-> namespace]
       /\ output' = BuildAgentRegistryRecordKeyOf(chainId, namespace)
  /\ UNCHANGED <<agentVars, sdkVars, callVars>>

CodecInit ==
  /\ Init
  /\ registrationFile = [a \in Agents |-> Unregistered]
  /\ registries = [IDENTITY |-> TRUE]

CodecNext ==
  ApplyDecode \/ ApplyEncode \/ ApplyMatch \/ ApplyBuildKey \/ ApplyBuildKeyOf

CodecSpec == CodecInit /\ [][CodecNext]_vars

\* ------------------------------------------------------------------------
\* loadAgentRegistryRecord called on its own, one action per await
\* ------------------------------------------------------------------------

LoadNames == {"test-agent.eth", "other.eth"}

\* the synchronous head of loadAgentRegistryRecord: the key is built, which
\* may throw, and provider.getResolver is called
LoadStart(c) ==
  /\ pc[c] = "idle"
  /\ fn = "none"
  /\ UNCHANGED <<agentVars, sdkVars, output>>
  /\ \E ensName \in LoadNames, chainId \in ChainIds, namespace \in Namespaces :
       /\ fn' = "loadAgentRegistryRecord"
       /\ input' = [ensName |-> ensName, chainId |-> chainId, namespace |-> namespace]
       /\ LET recordKey == BuildAgentRegistryRecordKey(chainId, namespace)
          IN  IF ~recordKey.ok THEN Finish(c, "throw") /\ UNCHANGED <<loc, log>>
              ELSE
                /\ loc' = [loc EXCEPT ![c] =
                             [@ EXCEPT !.ensName = ensName,
                                       !.chainId = chainId,
                                       !.normalizedKey = ToLowerCase(recordKey.val)]]
                /\ log' = [log EXCEPT ![c] =
                             Append(@, LogEntry("getResolver", ensName, <<>>, Pending))]
                /\ pc' = [pc EXCEPT ![c] = "loadGetResolver"]
                /\ UNCHANGED result

\* provider.getResolver(ensName) settles
LoadGetResolverSettles(c) ==
  /\ pc[c] = "loadGetResolver"
  /\ UNCHANGED <<agentVars, sdkVars, pureVars>>
  /\ \E outcome \in ResolverOutcomes :
       IF ResolverUsable(outcome)
         THEN /\ log' = [log EXCEPT ![c] =
                           Append(Returned(c, outcome),
                                  LogEntry("getText", "", loc[c].normalizedKey, Pending))]
              /\ pc' = [pc EXCEPT ![c] = "loadGetText"]
              /\ UNCHANGED <<loc, result>>
         ELSE /\ log' = [log EXCEPT ![c] = Returned(c, outcome)]
              /\ loc' = [loc EXCEPT ![c].fetched = Null]
              /\ Finish(c, "null")

\* resolver.getText(normalizedKey) settles; the loader returns the record or
\* null
LoadGetTextSettles(c) ==
  /\ pc[c] = "loadGetText"
  /\ UNCHANGED <<agentVars, sdkVars, pureVars>>
  /\ \E outcome \in TextOutcomes :
       LET value  == FetchedValue(outcome)
           record == LoadedRecord(value, loc[c].chainId)
       IN  /\ log' = [log EXCEPT ![c] = Returned(c, outcome)]
           /\ loc' = [loc EXCEPT ![c] =
                        [@ EXCEPT !.fetched = value, !.loaded = record.found,
                                  !.record = record.rec]]
           /\ Finish(c, IF record.found THEN "record" ELSE "null")

LoadNext ==
  \E c \in {1} :
    \/ LoadStart(c)
    \/ LoadGetResolverSettles(c)
    \/ LoadGetTextSettles(c)

LoadSpec == CodecInit /\ [][LoadNext]_vars

\* ------------------------------------------------------------------------
\* Properties
\* ------------------------------------------------------------------------

\* the chain id and token id parsed from the stored identifier of the agent
\* of call c
StoredTokenInfo(c) == ParseAgentId(registrationFile[AgentOf(c)].agentId.value).val
\* the record key of that agent's chain
StoredKey(c) == BuildAgentRegistryRecordKey(StoredTokenInfo(c).chainId, "eip155").val
\* that agent's ENS name
StoredName(c) == EnsEndpoint(registrationFile[AgentOf(c)]).value

\* the positions in a call's log of the calls of one operation
Calls(c, op) == { i \in 1..Len(log[c]) : log[c][i].op = op }
RegistryInvoked(c) == Calls(c, "getIdentityRegistry") \cup Calls(c, "getAddress") # {}
\* resolver.getText returned a non-empty text that decodes
RecordProduced(c) ==
  \E j \in Calls(c, "getText") :
     /\ log[c][j].ret.tag = "value"
     /\ log[c][j].ret.text # <<>>
     /\ DecodeAgentRegistryRecord(log[c][j].ret.text).ok

\* C1: verifyENSName returns true only if the resolver of the agent's ENS name
\* returned, under the key of the agent's chain, a text that decodes to the
\* checksum form of the address the registry lookup returned and to the token
\* id of the stored identifier; nothing else gives true.
C1_Soundness ==
  \A c \in CallIds :
    result[c] = "true" =>
      \E i \in Calls(c, "getResolver"), j \in Calls(c, "getText"), k \in Calls(c, "getAddress") :
        /\ log[c][i].name = StoredName(c)
        /\ log[c][i].ret = Resolver
        /\ log[c][j].key = StoredKey(c)
        /\ log[c][j].ret.tag = "value"
        /\ log[c][k].ret.tag = "value"
        /\ LET decoded  == DecodeAgentRegistryRecord(log[c][j].ret.text)
               registry == GetAddress(log[c][k].ret.text)
           IN  /\ decoded.ok
               /\ registry.ok
               /\ decoded.val.address = registry.val
               /\ decoded.val.agentId = StoredTokenInfo(c).tokenId

\* a verification that succeeded against a registry address given in lower case
C1_Witness ==
  /\ result[1] = "true"
  /\ \E k \in Calls(1, "getAddress") : log[1][k].ret = Value(LowerForm(AddrD8))

\* C2: a finished verifyENSName call has returned true or false; it never
\* raises, whatever the provider, the resolver and the registry lookup gave.
C2_TwoOutcomes ==
  \A c \in CallIds : pc[c] = "done" => result[c] \in {"true", "false"}

\* C3: with a resolver, the text encodeAgentRegistryRecord(checksum(a), tokenId)
\* and the registry lookup returning a, verifyENSName returns true; getResolver
\* was called with the agent's ENS name, getText with the key of the agent's
\* chain, and the registry lookup was made.
C3_Completeness ==
  \A c \in CallIds :
    /\ Len(log[c]) >= 1 =>
         /\ log[c][1].op = "getResolver"
         /\ log[c][1].name = StoredName(c)
    /\ Len(log[c]) >= 2 =>
         /\ log[c][2].op = "getText"
         /\ log[c][2].key = StoredKey(c)
    /\ \A b \in BaseAddresses :
         ( /\ Len(log[c]) >= 2
           /\ log[c][2].ret = Value(Enc(ChecksumForm(b), StoredTokenInfo(c).tokenId)) )
         => /\ RegistryInvoked(c)
            /\ \A k \in Calls(c, "getAddress") :
                 ( /\ log[c][k].ret.tag = "value"
                   /\ log[c][k].ret.text \in ValidForms(b) )
                 => result[c] = "true"

\* the success scenario on chain 137 with token id 167
C3_Witness ==
  /\ result[1] = "true"
  /\ StoredTokenInfo(1) = [chainId |-> 137, tokenId |-> 167]
  /\ log[1][2].ret = Value(Enc(ChecksumForm(AddrD8), 167))
  /\ log[1][4].ret = Value(ChecksumForm(AddrD8))

\* C4: the identity-registry lookup is invoked if and only if loading produced
\* a record: never without a resolver, a text or a successful decode, always
\* once a record decodes, also when it then does not match.
C4_RegistryLookupOrder ==
  \A c \in CallIds :
    /\ RegistryInvoked(c) <=> RecordProduced(c)
    /\ RegistryInvoked(c) <=> loc[c].loaded

\* the lookup was made for a record whose agent id then did not match
C4_Witness ==
  /\ result[1] = "false"
  /\ \E k \in Calls(1, "getAddress") : log[1][k].ret = Value(ChecksumForm(AddrD8))
  /\ loc[1].record.address = ChecksumForm(AddrD8)
  /\ loc[1].record.agentId # loc[1].tokenId

\* the expected identities that differ from e in exactly one field, the
\* address by its bytes
OneFieldChanged(e) ==
  { f \in MatchExpected :
      /\ GetAddress(f.registryAddress).ok
      /\ \/ /\ f.chainId # e.chainId
            /\ f.registryAddress = e.registryAddress /\ f.agentId = e.agentId
         \/ /\ GetAddress(f.registryAddress).val # GetAddress(e.registryAddress).val
            /\ f.chainId = e.chainId /\ f.agentId = e.agentId
         \/ /\ f.agentId # e.agentId
            /\ f.chainId = e.chainId /\ f.registryAddress = e.registryAddress }

\* C5: recordMatchesAgent returns true exactly when version, chain type, chain
\* reference, checksummed address and agent id all match; from a match,
\* changing one expected field alone gives false.
C5_MatchConjunctive ==
  fn = "recordMatchesAgent" =>
    LET record   == input.record
        expected == input.expected
        checksum == GetAddress(expected.registryAddress)
        matched  == output.ok /\ output.val
    IN  /\ matched <=>
             /\ record.version = 1
             /\ record.chainType = EIP155_CODE
             /\ record.chainReference = expected.chainId
             /\ checksum.ok
             /\ record.address = checksum.val
             /\ record.agentId = expected.agentId
        /\ matched =>
             \A changed \in OneFieldChanged(expected) :
                RecordMatchesAgent(record, changed) = Return(FALSE)

\* a match against an expected address supplied in lower case
C5_Witness ==
  /\ fn = "recordMatchesAgent"
  /\ output = Return(TRUE)
  /\ input.expected.registryAddress = LowerForm(AddrD8)
  /\ OneFieldChanged(input.expected) # {}

\* C6: for a record with a checksum-normalized address, recordMatchesAgent gives
\* the same result for every valid letter-case form of the expected address.
C6_CaseInsensitive ==
  fn = "recordMatchesAgent" =>
    \A b \in BaseAddresses :
      ( /\ input.expected.registryAddress \in ValidForms(b)
        /\ \E r \in BaseAddresses : input.record.address = ChecksumForm(r) )
      => \A form \in ValidForms(b) :
           RecordMatchesAgent(input.record,
                              [input.expected EXCEPT !.registryAddress = form]) = output

\* a match against an expected address supplied in upper case
C6_Witness ==
  /\ fn = "recordMatchesAgent"
  /\ output = Return(TRUE)
  /\ input.expected.registryAddress = UpperForm(AddrD8)
  /\ input.record.address = ChecksumForm(AddrD8)

\* C7: decoding the encoding of a valid address and an agent id (of at most
\* MaxIdBytes bytes here) succeeds with the checksum address and the same id.
C7_RoundTrip ==
  ( /\ fn = "encodeAgentRegistryRecord"
    /\ GetAddress(input.registryAddress).ok )
  => /\ output.ok
     /\ LET decoded == DecodeAgentRegistryRecord(output.val)
        IN  /\ decoded.ok
            /\ decoded.val.address = GetAddress(input.registryAddress).val
            /\ decoded.val.agentId = input.agentId

\* the round trip of a two-byte agent id and an upper-case address
C7_Witness ==
  /\ fn = "encodeAgentRegistryRecord"
  /\ input.registryAddress = UpperForm(Addr12)
  /\ input.agentId = 256
  /\ output.ok

RECURSIVE MinimalByteCount(_)
\* bytes of the minimal big-endian encoding, zero taking no byte
MinimalByteCount(n) == IF n = 0 THEN 0 ELSE 1 + MinimalByteCount(n \div 256)

\* C8: the length field of an encoded value is the byte count of the minimal
\* big-endian encoding of the agent id: 00 and no payload for zero, 01 and a7
\* for 0xa7.
C8_LengthPrefix ==
  ( /\ fn = "encodeAgentRegistryRecord"
    /\ output.ok )
  => LET lengthField == Slice(output.val, ADDRESS_HEX_LENGTH, ADDRESS_HEX_LENGTH + 2)
         payload     == SliceFrom(output.val, ADDRESS_HEX_LENGTH + 2)
     IN  /\ lengthField = HexFixed(MinimalByteCount(input.agentId), 1)
         /\ Len(payload) = 2 * MinimalByteCount(input.agentId)
         /\ input.agentId = 0 => lengthField = <<"0","0">> /\ payload = <<>>
         /\ input.agentId = 167 => lengthField = <<"0","1">> /\ payload = <<"a","7">>

\* C9: an absent text, or a text the decoder rejects (no 0x, under 44
\* characters, bad length field, bad payload, length mismatch, bad address),
\* makes the loader return null without raising, and verifyENSName false.
C9_LoadFailsClosed ==
  \A c \in CallIds :
    \A j \in Calls(c, "getText") :
      LET ret == log[c][j].ret
      IN  ( \/ ret.tag = "null"
            \/ /\ ret.tag = "value"
               /\ \/ ret.text = <<>>
                  \/ ret.text \in MalformedValues
                  \/ ~DecodeAgentRegistryRecord(ret.text).ok )
          => /\ ~loc[c].loaded
             /\ loc[c].record = NoRecord
             /\ pc[c] = "done"
             /\ result[c] = "false"

\* a text whose declared length disagrees with its payload was fetched
C9_Witness ==
  /\ pc[1] = "done"
  /\ result[1] = "false"
  /\ \E j \in Calls(1, "getText") : log[1][j].ret = Value(LengthMismatchValue)

\* C10: the fetcher returns null when getResolver throws or gives no resolver
\* or getText throws, and otherwise exactly what getText returned; no failure
\* propagates.
C10_FetchNeverPropagates ==
  \A c \in CallIds :
    Len(log[c]) >= 1 =>
      LET resolver == log[c][1].ret
      IN  /\ resolver \in {Null, Threw} =>
             /\ loc[c].fetched = Null
             /\ Calls(c, "getText") = {}
             /\ result[c] = "false"
          /\ resolver = Pending => loc[c].fetched = Pending
          /\ resolver = Resolver =>
             /\ Calls(c, "getText") = {2}
             /\ log[c][2].ret = Pending => loc[c].fetched = Pending
             /\ log[c][2].ret = Threw => loc[c].fetched = Null /\ result[c] = "false"
             /\ log[c][2].ret \notin {Pending, Threw} => loc[c].fetched = log[c][2].ret

\* getText threw and the fetcher gave null
C10_Witness ==
  /\ Len(log[1]) >= 2
  /\ log[1][2].ret = Threw
  /\ loc[1].fetched = Null
  /\ result[1] = "false"

RECURSIVE MinimalBigEndian(_)
\* the bytes of the minimal big-endian encoding, zero taking no byte
MinimalBigEndian(n) ==
  IF n = 0 THEN <<>> ELSE Append(MinimalBigEndian(n \div 256), n % 256)

\* the chain-only envelope in lowercase hex: version 1, the chain-type code,
\* the counted chain-reference bytes and a zero-length address
ChainOnlyEnvelopeHex(code, chainReferenceBytes) ==
  <<"0","0","0","1">> \o HexFixed(code, 2)
    \o HexFixed(Len(chainReferenceBytes), 1) \o HexOfBytes(chainReferenceBytes)
    \o <<"0","0">>

\* C11: for every non-negative chain reference and the eip155 namespace,
\* buildAgentRegistryRecordKey returns agent-registry: followed by the
\* lowercase, unprefixed hex of version 1, the chain-type code, the chain
\* reference in minimal big-endian bytes and a zero-length address field.
C11_KeyFormat ==
  ( /\ fn = "buildAgentRegistryRecordKey"
    /\ input.namespace = "eip155"
    /\ input.chainId >= 0 )
  => output = Return(KeyPrefix \o ChainOnlyEnvelopeHex(EIP155_CODE,
                                                       MinimalBigEndian(input.chainId)))

C13_NoSharedMutation == [][sdkVars' = sdkVars]_vars

\* C13, amended: a verifyENSName call never changes the SDK's registry table;
\* the one thing of the SDK it changes is the identity-registry handle, which
\* it creates, when there was none and an IDENTITY address is configured, in
\* the step that loaded a record, and never clears or replaces.
C13_OnlyHandleCreated ==
  [][ /\ registries' = registries
      /\ identityRegistry' # identityRegistry =>
           /\ ~identityRegistry
           /\ identityRegistry'
           /\ registries.IDENTITY
           /\ \E c \in CallIds :
                /\ pc[c] = "getText"
                /\ pc'[c] = "getAddress"
                /\ loc'[c].loaded ]_vars

\* a finished call that created the handle
C13_Witness ==
  /\ pc[1] = "done"
  /\ identityRegistry
  /\ \E i \in Calls(1, "getIdentityRegistry") : log[1][i].ret = Contract

\* what the call made on agent c returns when it runs alone on an SDK without a
\* handle and is given the responses call c was given; "diverged" when call c
\* was not given a response the call alone asks for
SoloResult(c) ==
  LET rf      == registrationFile[AgentOf(c)]
      ensName == EnsEndpoint(rf)
      agentId == rf.agentId
      given(i) == IF Len(log[c]) >= i THEN log[c][i].ret ELSE Pending
  IN  IF ~ensName.defined \/ ensName.value = "" \/ ~agentId.defined \/ agentId.value = <<>>
        THEN "false"
      ELSE IF ~ParseAgentId(agentId.value).ok THEN "false"
      ELSE
        LET tokenInfo == ParseAgentId(agentId.value).val
            record    == LoadedRecord(FetchedValue(given(2)), tokenInfo.chainId)
        IN  IF given(1) = Pending THEN "diverged"
            ELSE IF given(1) # Resolver THEN "false"
            ELSE IF given(2) = Pending THEN "diverged"
            ELSE IF ~record.found THEN "false"
            ELSE IF ~registries.IDENTITY THEN "false"
            ELSE IF given(4) = Pending THEN "diverged"
            ELSE IF given(4) = Threw THEN "false"
            ELSE MatchOutcome(record.rec, tokenInfo.chainId, given(4).text,
                              tokenInfo.tokenId)

\* C14: however the steps of two verifyENSName calls on one SDK and provider
\* interleave, each finished call has asked for its own agent's name and key
\* and has the result it has alone, given the same responses.
C14_ConcurrentIndependent ==
  \A c \in CallIds :
    /\ \A i \in Calls(c, "getResolver") : log[c][i].name = StoredName(c)
    /\ \A i \in Calls(c, "getText") : log[c][i].key = StoredKey(c)
    /\ pc[c] = "done" => result[c] = SoloResult(c)

\* call 2, on another chain, succeeded after call 1 created the handle and
\* while call 1 was still waiting for the registry address
C14_Witness ==
  /\ StoredTokenInfo(1).chainId # StoredTokenInfo(2).chainId
  /\ pc[1] = "getAddress"
  /\ pc[2] = "done"
  /\ result[2] = "true"

\* the agent of call c has no ENS name, no stored identifier, or one that does
\* not parse as chainId:tokenId
NothingToVerify(c) ==
  LET rf      == registrationFile[AgentOf(c)]
      ensName == EnsEndpoint(rf)
  IN  \/ ~ensName.defined
      \/ ensName.value = ""
      \/ ~rf.agentId.defined
      \/ ~ParseAgentId(rf.agentId.value).ok

\* C15: without an ENS endpoint, without a stored identifier, or with one that
\* does not parse, verifyENSName returns false and has called neither
\* provider.getResolver, resolver.getText nor the identity-registry lookup.
C15_FailFast ==
  \A c \in CallIds :
    NothingToVerify(c) =>
      /\ log[c] = <<>>
      /\ pc[c] \in {"idle", "done"}
      /\ pc[c] = "done" => result[c] = "false"

\* a call on an agent with an ENS name whose identifier does not parse
C15_Witness ==
  /\ EnsEndpoint(registrationFile[1]).defined
  /\ registrationFile[1].agentId = Some(<<"x", ":", "4", "2">>)
  /\ pc[1] = "done"
  /\ result[1] = "false"
  /\ log[1] = <<>>

\* the registry lookup of call c threw: no handle could be obtained, or
\* getAddress() rejected
RegistryLookupThrew(c) ==
  \/ \E i \in Calls(c, "getIdentityRegistry") : log[c][i].ret = Threw
  \/ \E i \in Calls(c, "getAddress") : log[c][i].ret = Threw

\* C16: when a record was loaded and the identity-registry lookup throws,
\* obtaining the handle or reading its address, verifyENSName returns false
\* and recordMatchesAgent is not run.
C16_RegistryLookupThrows ==
  \A c \in CallIds :
    /\ (loc[c].loaded /\ RegistryLookupThrew(c)) =>
         /\ pc[c] = "done"
         /\ result[c] = "false"
         /\ loc[c].matcher = "not run"
    /\ (loc[c].loaded /\ GetIdentityRegistryThrows) => RegistryLookupThrew(c)
    /\ loc[c].matcher # "not run" =>
         \E i \in Calls(c, "getAddress") : log[c][i].ret.tag = "value"

\* getAddress() rejected for a record that equals the agent's identity
C16_Witness ==
  /\ loc[1].loaded
  /\ loc[1].record.agentId = loc[1].tokenId
  /\ \E i \in Calls(1, "getAddress") : log[1][i].ret = Threw
  /\ \E i \in Calls(1, "getIdentityRegistry") : log[1][i].ret = Contract
  /\ result[1] = "false"

\* two hexadecimal digits, the text of one unsigned byte
IsTwoHexDigits(s) == Len(s) = 2 /\ IsHexChar(s[1]) /\ IsHexChar(s[2])

\* C17: a value of at least 44 characters starting with 0x whose characters
\* [42,44) are not two hexadecimal digits is rejected by
\* decodeAgentRegistryRecord with the invalid-agent-ID-length error; a length
\* field that is hexadecimal only in part is never accepted.
C17_LengthFieldGate ==
  ( /\ fn = "decodeAgentRegistryRecord"
    /\ StartsWith(input.valueHex, Prefix0x)
    /\ Len(input.valueHex) >= ADDRESS_HEX_LENGTH + 2
    /\ ~IsTwoHexDigits(Slice(input.valueHex, ADDRESS_HEX_LENGTH, ADDRESS_HEX_LENGTH + 2)) )
  => output = Throw("Invalid agent ID length", NoRecord)

\* the gates of the decoder, each on the value alone; the length field passes
\* when parseInt gives a number that is not negative
PrefixGate(v) == StartsWith(v, Prefix0x)
MinimumLengthGate(v) == Len(v) >= 44
DeclaredLength(v) == ParseInt16(Slice(v, 42, 44))
LengthFieldGate(v) == ~DeclaredLength(v).nan /\ DeclaredLength(v).val >= 0
PayloadOf(v) == SliceFrom(v, 44)
PayloadHexGate(v) == IsHexString(PayloadOf(v)) /\ Len(PayloadOf(v)) % 2 = 0
PayloadLengthGate(v) == Len(PayloadOf(v)) = 2 * DeclaredLength(v).val
AddressGate(v) == GetAddress(Slice(v, 0, 42)).ok

\* the gates in the order of the claim, each with its error
GatePasses(v) ==
  << PrefixGate(v), MinimumLengthGate(v), LengthFieldGate(v), PayloadHexGate(v),
     PayloadLengthGate(v), AddressGate(v) >>
GateError(v) ==
  << "CAIP-350 segment must start with 0x", "Agent registry record value too short",
     "Invalid agent ID length", "invalid BytesLike value",
     "Agent ID length does not match payload", GetAddress(Slice(v, 0, 42)).err >>

\* C18: decodeAgentRegistryRecord applies its gates in the order prefix,
\* minimum length, length field, payload hex, declared length against payload
\* bytes, address; it raises the error of the earliest gate the value
\* violates, whatever later gates it violates too, and accepts a value only
\* if it passes all six.
C18_GateOrder ==
  fn = "decodeAgentRegistryRecord" =>
    LET v        == input.valueHex
        violated == { i \in 1..6 : ~GatePasses(v)[i] }
    IN  IF violated = {} THEN output.ok
        ELSE LET first == CHOOSE i \in violated : \A j \in violated : i <= j
             IN  output = Throw(GateError(v)[first], NoRecord)

\* a payload shorter than declared behind an address with a wrong checksum
C18_Witness ==
  /\ fn = "decodeAgentRegistryRecord"
  /\ input.valueHex = BadChecksumForm(AddrD8) \o <<"0","2">> \o <<"2","a">>
  /\ output = Throw("Agent ID length does not match payload", NoRecord)

\* the value passes the five gates before the address gate
PassesLengthGates(v) ==
  /\ PrefixGate(v) /\ MinimumLengthGate(v) /\ LengthFieldGate(v)
  /\ PayloadHexGate(v) /\ PayloadLengthGate(v)

\* the text is the EIP-55 checksum text of a 20-byte address
IsChecksumText(a) == IsAddressShaped(a) /\ a = GetChecksumAddress(a)

\* C19 as stated: a value that passes the length gates is accepted only if its
\* first 42 characters are the EIP-55 checksummed text of an address.
C19_ChecksumTextOnly ==
  ( /\ fn = "decodeAgentRegistryRecord"
    /\ PassesLengthGates(input.valueHex)
    /\ output.ok )
  => IsChecksumText(Slice(input.valueHex, 0, 42))

\* C19, amended: a value that passes the length gates is accepted exactly when
\* its first 42 characters are 0x and the 40 hex digits of an address in lower
\* case, in upper case or in EIP-55 checksum case, and the record then holds
\* the checksum text; a mixed-case text with another letter case, and a text
\* that is not 40 hex digits, are rejected with the error of ethers.getAddress.
C19_AddressGate ==
  ( /\ fn = "decodeAgentRegistryRecord"
    /\ PassesLengthGates(input.valueHex) )
  => LET addressText == Slice(input.valueHex, 0, 42)
     IN  /\ output.ok <=> \E b \in BaseAddresses : addressText \in ValidForms(b)
         /\ \A b \in BaseAddresses :
              /\ addressText \in ValidForms(b) => output.val.address = ChecksumForm(b)
              /\ addressText = BadChecksumForm(b)
                   => output = Throw("bad address checksum", NoRecord)
              /\ addressText = NonHexForm(b)
                   => output = Throw("invalid address", NoRecord)

\* a value with its address in lower case was accepted
C19_Witness ==
  /\ fn = "decodeAgentRegistryRecord"
  /\ input.valueHex = LowerForm(Addr12) \o <<"0","1">> \o <<"2","a">>
  /\ output.ok
  /\ output.val.address = ChecksumForm(Addr12)

\* recordMatchesAgent on a record and its own chain reference and agent id,
\* with the given text as the expected registry address
MatchesRegistryText(record, registryAddress) ==
  RecordMatchesAgent(record, [chainId |-> record.chainReference,
                              registryAddress |-> registryAddress,
                              agentId |-> record.agentId])

\* C20: a record the loader returns, and so one the decoder returns, holds its
\* address in checksum form whatever the letter case of the address text of
\* the fetched value; the matcher's answer for such a record depends on the
\* address alone, not on the letter case it was written in on either side.
C20_NormalizedRecords ==
  \A c \in CallIds :
    loc[c].loaded =>
      LET text   == loc[c].fetched.text
          record == loc[c].record
          base   == SliceFrom(ToLowerCase(Slice(text, 0, 42)), 2)
      IN  /\ record.address = GetChecksumAddress(record.address)
          /\ record.address = ChecksumForm(base)
          /\ DecodeAgentRegistryRecord(text).val.address = record.address
          /\ \A form \in ValidForms(base) :
               /\ LoadedRecord(Value(form \o SliceFrom(text, 42)), loc[c].chainId).rec = record
               /\ MatchesRegistryText(record, form) = Return(TRUE)
          /\ \A b \in BaseAddresses \ {base} : \A form \in ValidForms(b) :
               MatchesRegistryText(record, form) = Return(FALSE)

\* the loader returned a record for a value with its address in upper case
C20_Witness ==
  /\ fn = "loadAgentRegistryRecord"
  /\ result[1] = "record"
  /\ loc[1].fetched = Value(UpperForm(AddrD8) \o <<"0","1","2","a">>)
  /\ loc[1].record.address = ChecksumForm(AddrD8)

\* C21: a record decodeAgentRegistryRecord returns has version 1, chain type
\* 0x0000 and chain reference 0 whatever the value; a record
\* loadAgentRegistryRecord returns has the version, chain type, address and
\* agent id of the decode of the fetched value, and the chain id it was called
\* with as its chain reference.
C21_FixedFieldsAndChain ==
  \A c \in CallIds :
    (fn = "loadAgentRegistryRecord" /\ loc[c].loaded) =>
      LET decoded == DecodeAgentRegistryRecord(loc[c].fetched.text)
          record  == loc[c].record
      IN  /\ decoded.ok
          /\ decoded.val.version = 1
          /\ decoded.val.chainType = 0
          /\ decoded.val.chainReference = 0
          /\ record.version = decoded.val.version
          /\ record.chainType = decoded.val.chainType
          /\ record.address = decoded.val.address
          /\ record.agentId = decoded.val.agentId
          /\ record.chainReference = input.chainId

\* the loader, called for chain 11155111, returned a record
C21_Witness ==
  /\ fn = "loadAgentRegistryRecord"
  /\ input.chainId = 11155111
  /\ result[1] = "record"
  /\ loc[1].record.chainReference = 11155111
  /\ loc[1].record.agentId = 167

RECURSIVE BigEndianUnsigned(_)
\* the unsigned integer a byte sequence denotes, most significant byte first
BigEndianUnsigned(bytes) ==
  IF Len(bytes) = 0 THEN 0
  ELSE 256 * BigEndianUnsigned(SubSeq(bytes, 1, Len(bytes) - 1)) + bytes[Len(bytes)]

\* C22: a value of exactly 44 characters, a valid address text and the length
\* field 00, is accepted by decodeAgentRegistryRecord with agent id 0; the
\* agent id of an accepted value with a payload is the big-endian unsigned
\* integer of the payload bytes.
C22_AgentIdConversion ==
  fn = "decodeAgentRegistryRecord" =>
    LET v == input.valueHex
    IN  /\ ( /\ Len(v) = 44
             /\ Slice(v, 42, 44) = <<"0","0">>
             /\ \E b \in BaseAddresses : Slice(v, 0, 42) \in ValidForms(b) )
           => (output.ok /\ output.val.agentId = 0)
        /\ (output.ok /\ Len(v) > 44)
           => output.val.agentId
                = BigEndianUnsigned(GetBytes(Prefix0x \o SliceFrom(v, 44)).val)

\* the 44-character value with length field 00 decoded to agent id 0
C22_Witness ==
  /\ fn = "decodeAgentRegistryRecord"
  /\ input.valueHex = ChecksumForm(AddrD8) \o <<"0","0">>
  /\ output.ok
  /\ output.val.agentId = 0

\* an external call that failed: it threw, or gave nothing
Failed(entry) == entry.ret.tag \in {"throw", "null"}

\* C23: one verifyENSName call asks provider.getResolver at most once, asks
\* resolver.getText at most once, only right after getResolver returned a
\* resolver and with the lower-cased record key of the stored chain, and looks
\* the registry address up at most once; a call that failed is the last one
\* made.
C23_CallProtocol ==
  \A c \in CallIds :
    /\ Cardinality(Calls(c, "getResolver")) <= 1
    /\ Cardinality(Calls(c, "getText")) <= 1
    /\ Cardinality(Calls(c, "getIdentityRegistry")) <= 1
    /\ Cardinality(Calls(c, "getAddress")) <= 1
    /\ \A i \in Calls(c, "getText") :
         /\ i > 1
         /\ log[c][i - 1].op = "getResolver"
         /\ log[c][i - 1].ret = Resolver
         /\ log[c][i].key = ToLowerCase(StoredKey(c))
    /\ \A i \in 1..Len(log[c]) : Failed(log[c][i]) => i = Len(log[c])

\* a call that asked the resolver, the text and the registry address, the
\* last of which threw
C23_Witness ==
  /\ Len(log[1]) = 4
  /\ log[1][1].op = "getResolver" /\ log[1][1].ret = Resolver
  /\ log[1][2].op = "getText" /\ log[1][2].ret.tag = "value"
  /\ log[1][4].op = "getAddress" /\ log[1][4].ret = Threw
  /\ pc[1] = "done"

\* the call is suspended at an await whose request has not been answered
Awaiting(c) ==
  /\ pc[c] \in {"getResolver", "getText", "getAddress"}
  /\ Len(log[c]) > 0
  /\ log[c][Len(log[c])].ret = Pending

\* C24: when each external call settles, verifyENSName completes with a
\* result; a call suspended at an await goes on only by the settling of the
\* request it awaits, and has no result while it is suspended.
C24_Termination ==
  /\ \A c \in {1} : pc[c] # "idle" ~> (pc[c] = "done" /\ result[c] # "pending")
  /\ [](\A c \in CallIds : pc[c] \notin {"idle", "done"} =>
                              (Awaiting(c) /\ result[c] = "pending"))
  /\ [][\A c \in CallIds :
          (Awaiting(c) /\ pc'[c] # pc[c]) =>
             log'[c][Len(log[c])].ret # Pending]_vars

\* a call that went through its three awaits and completed
C24_Witness ==
  /\ pc[1] = "done"
  /\ result[1] \in {"true", "false"}
  /\ Calls(1, "getAddress") # {}
  /\ log[1][Len(log[1])].ret.tag = "value"

\* the text identityRegistry.getAddress() returned to call c
RegistryText(c) == log[c][Len(log[c])].ret.text

\* C25: the record verifyENSName hands to recordMatchesAgent has the chain id
\* parsed from the stored agent id as its chain reference, the expected chain
\* id being that same number; when the matcher returns, it returns true
\* exactly when the addresses and the agent ids agree.
C25_ChainNeverDecides ==
  \A c \in CallIds :
    /\ loc[c].loaded =>
         /\ loc[c].record.chainReference = loc[c].chainId
         /\ loc[c].chainId = StoredTokenInfo(c).chainId
         /\ loc[c].record.version = 1
         /\ loc[c].record.chainType = EIP155_CODE
    /\ loc[c].matcher \in {"true", "false"} =>
         (loc[c].matcher = "true" <=>
            /\ loc[c].record.address = GetAddress(RegistryText(c)).val
            /\ loc[c].record.agentId = loc[c].tokenId)

\* the matcher ran for an agent of chain 137 and found a match
C25_Witness ==
  /\ loc[1].matcher = "true"
  /\ loc[1].chainId = 137
  /\ loc[1].record.chainReference = 137

\* C26: the keys buildAgentRegistryRecordKey returns for two chain references
\* are equal exactly when the references are the same number, in whichever of
\* the forms bigint, number and decimal string either is given; and a key is
\* its own lower-case form.
C26_KeyIdentifiesChain ==
  (fn = "buildAgentRegistryRecordKeyOf" /\ output.ok) =>
    /\ ToLowerCase(output.val) = output.val
    /\ \A n \in ChainIds :
         input.chainId \in FormsOf(n) =>
           /\ n >= 0
           /\ \A m \in ChainIds : \A other \in FormsOf(m) :
                LET key == BuildAgentRegistryRecordKeyOf(other, input.namespace)
                IN  key.ok => (key.val = output.val <=> m = n)

\* the key of chain 11155111 given as a decimal string
C26_Witness ==
  /\ fn = "buildAgentRegistryRecordKeyOf"
  /\ input.chainId = StringForm(<<"1","1","1","5","5","1","1","1">>)
  /\ input.namespace = "eip155"
  /\ output.ok
  /\ output.val = BuildAgentRegistryRecordKey(11155111, "eip155").val

\* the value v with one more zero byte in front of its payload, and the length
\* field of that longer payload
WithLeadingZeroByte(v) ==
  LET payload == SliceFrom(v, 44)
  IN  Slice(v, 0, 42) \o PadStart2(ToString16((Len(payload) \div 2) + 1))
        \o <<"0","0">> \o payload

\* C27: a value that decodes, and the same value with a zero byte added in
\* front of its payload and the length field raised by one, decode to the same
\* record; verifyENSName therefore loads the same record from either, and
\* decides the same.
C27_LeadingZeroBytes ==
  \A c \in CallIds :
    loc[c].loaded =>
      LET v      == loc[c].fetched.text
          padded == WithLeadingZeroByte(v)
      IN  /\ padded # v
          /\ DecodeAgentRegistryRecord(padded).ok
          /\ DecodeAgentRegistryRecord(padded).val = DecodeAgentRegistryRecord(v).val
          /\ LoadedRecord(Value(padded), loc[c].chainId).found
          /\ LoadedRecord(Value(padded), loc[c].chainId).rec = loc[c].record

\* token 42 was verified from the record whose payload is 002a with length 02
C27_Witness ==
  /\ result[1] = "true"
  /\ loc[1].tokenId = 42
  /\ loc[1].fetched.text = ChecksumForm(AddrD8) \o <<"0","2","0","0","2","a">>
  /\ loc[1].fetched.text
       = WithLeadingZeroByte(ChecksumForm(AddrD8) \o <<"0","1","2","a">>)

\* the text s with its hex letters a-f in upper case, or A-F in lower case
UpperHexLetters(s) == [i \in 1..Len(s) |-> IF IsLowerAF(s[i]) THEN ToUpperChar(s[i]) ELSE s[i]]
LowerHexLetters(s) == [i \in 1..Len(s) |-> IF IsUpperAF(s[i]) THEN ToLowerChar(s[i]) ELSE s[i]]

\* the same result: both a throw, or both the same record
SameDecode(a, b) == a.ok = b.ok /\ (a.ok => a.val = b.val)

\* C28: a value, the value with the hex letters of its payload in upper case
\* and the value with them in lower case are all three rejected by
\* decodeAgentRegistryRecord, or all three decode to the same record.
C28_PayloadCaseIgnored ==
  fn = "decodeAgentRegistryRecord" =>
    LET v     == input.valueHex
        upper == Slice(v, 0, 44) \o UpperHexLetters(SliceFrom(v, 44))
        lower == Slice(v, 0, 44) \o LowerHexLetters(SliceFrom(v, 44))
    IN  /\ SameDecode(DecodeAgentRegistryRecord(upper), output)
        /\ SameDecode(DecodeAgentRegistryRecord(lower), output)

\* the payload A7 was decoded to agent id 167, as a7 is
C28_Witness ==
  /\ fn = "decodeAgentRegistryRecord"
  /\ SliceFrom(input.valueHex, 44) = <<"A","7">>
  /\ output.ok
  /\ output.val.agentId = 167
  /\ DecodeAgentRegistryRecord(Slice(input.valueHex, 0, 44) \o <<"a","7">>).val = output.val

\* what call c has asked and compared is what its locals hold
UsesItsLocals(c) ==
  /\ \A i \in Calls(c, "getResolver") : log[c][i].name = loc[c].ensName
  /\ \A i \in Calls(c, "getText") :
       /\ log[c][i].key = loc[c].normalizedKey
       /\ log[c][i].key
            = ToLowerCase(BuildAgentRegistryRecordKey(loc[c].chainId, "eip155").val)
  /\ loc[c].loaded => loc[c].record.chainReference = loc[c].chainId
  /\ loc[c].matcher # "not run" =>
       loc[c].matcher = MatchOutcome(loc[c].record, loc[c].chainId,
                                     RegistryText(c), loc[c].tokenId)

\* the step that starts call c copies the stored name and the parsed stored
\* identifier into its locals; no later step of anyone changes these locals
KeepsItsSnapshot(c) ==
  /\ (pc[c] = "idle" /\ pc'[c] = "getResolver") =>
       /\ loc'[c].ensName = StoredName(c)
       /\ loc'[c].chainId = StoredTokenInfo(c).chainId
       /\ loc'[c].tokenId = StoredTokenInfo(c).tokenId
  /\ pc[c] # "idle" =>
       /\ loc'[c].ensName = loc[c].ensName
       /\ loc'[c].chainId = loc[c].chainId
       /\ loc'[c].tokenId = loc[c].tokenId
       /\ loc'[c].normalizedKey = loc[c].normalizedKey
  /\ agentVars' # agentVars => callVars' = callVars

\* C29: a verifyENSName call looks up the name, fetches the key and compares
\* the chain id and token id that were stored when it started, whatever
\* setENS or a registration stores while it is pending.
C29_Snapshot ==
  /\ [](\A c \in CallIds : UsesItsLocals(c))
  /\ [][\A c \in CallIds : KeepsItsSnapshot(c)]_vars

\* the call awaits the registry address for test-agent.eth on chain 1 while
\* the agent has become other.eth on chain 137
C29_Witness ==
  /\ pc[1] = "getAddress"
  /\ loc[1].ensName = "test-agent.eth"
  /\ loc[1].chainId = 1
  /\ log[1][1].name = "test-agent.eth"
  /\ StoredName(1) = "other.eth"
  /\ StoredTokenInfo(1).chainId = 137

\* C30: no step of verifyENSName changes the agent's registration file, its
\* dirty-metadata set or its last-registered name.
C30_ReadOnly == [][callVars' # callVars => agentVars' = agentVars]_vars

\* a verification ended with true on an agent that is as it was created
C30_Witness ==
  /\ pc[1] = "done"
  /\ result[1] = "true"
  /\ registrationFile[1] = ConcAgents[1]
  /\ dirtyMetadata[1] = {}
  /\ lastRegisteredEns[1] = UndefinedName

====
